---- MODULE Spec2Model ----
(***************************************************************************)
(* datagen-cli: the configuration model, the validator, the full project   *)
(* generation (build) and the marker-based incremental injection (add).    *)
(*                                                                         *)
(* Files are modelled as sequences of text pieces in file order.  A piece  *)
(* is a record [k, n, l, o]: kind, name, label and owner.  k, n and l are  *)
(* the text of the piece; o (who wrote it: "gen" or "user") is not text,   *)
(* so every search of the code compares k, n and l only.                   *)
(***************************************************************************)
EXTENDS Naturals, Sequences, FiniteSets

VARIABLES
    toml,       \* the persisted datagen.toml: a DatagenConfig
    prompts,    \* names of the prompt files that exist under the project
    mainPy,     \* app/main.py, <<>> when the file does not exist
    modelsPy,   \* app/models.py
    envEx,      \* .env.example
    edits,      \* number of hand edits made to the generated files
    last,       \* what the last command did: op, err, svc, trace, pre
    gen         \* one service and the handler blocks generated for it

vars == <<toml, prompts, mainPy, modelsPy, envEx, edits, last, gen>>

\* Bounds of the model.
MaxServices == 4
MaxEdits == 1

(***************************************************************************)
(* Text helpers: strings.Index / strings.Contains over pieces.             *)
(***************************************************************************)
Piece(k, n, l, o) == [k |-> k, n |-> n, l |-> l, o |-> o]

SameText(p, q) == p.k = q.k /\ p.n = q.n /\ p.l = q.l

\* strings.Index(content, piece) from position from: 0 when absent.
IndexFrom(content, q, from) ==
    IF \E i \in from..Len(content) : SameText(content[i], q)
    THEN CHOOSE i \in from..Len(content) :
            /\ SameText(content[i], q)
            /\ \A j \in from..(i - 1) : ~SameText(content[j], q)
    ELSE 0

Index(content, q) == IndexFrom(content, q, 1)

Contains(content, q) == Index(content, q) # 0

Count(content, q) == Cardinality({i \in 1..Len(content) : SameText(content[i], q)})

RECURSIVE Concat(_)
Concat(ss) == IF ss = <<>> THEN <<>> ELSE Head(ss) \o Concat(Tail(ss))

IsPrefix(s, t) == Len(s) <= Len(t) /\ SubSeq(t, 1, Len(s)) = s

IsSuffix(s, t) == Len(s) <= Len(t) /\ SubSeq(t, Len(t) - Len(s) + 1, Len(t)) = s

(***************************************************************************)
(* Configuration model (internal/config/types.go).  An optional (pointer)  *)
(* field is a sequence: <<>> for nil, <<v>> for a value.  Paths and        *)
(* environment-variable names are sequences of text fragments, so that     *)
(* prefixes and substrings are what the code sees.                         *)
(***************************************************************************)
Field(name, type, required) == [Name |-> name, Type |-> type, Required |-> required]

Auth(type, header, envVar) == [Type |-> type, Header |-> header, EnvVar |-> envVar]

WebhookConfig(sig, header, secretEnv, retry, maxRetries) ==
    [SignatureVerification |-> sig, SignatureHeader |-> header, SecretEnv |-> secretEnv,
     RetryEnabled |-> retry, MaxRetries |-> maxRetries, BackoffStrategy |-> ""]

\* A webhook configuration with backoff_strategy set.
WithBackoff(wh, strategy) == [wh EXCEPT !.BackoffStrategy = strategy]

APIConfig(format, timeout, rl, rpm) ==
    [ResponseFormat |-> format, Timeout |-> timeout, RateLimitEnabled |-> rl,
     RateLimitRPM |-> rpm]

StreamingConfig(format, bufferSize) == [Format |-> format, BufferSize |-> bufferSize]

Service(name, type, desc, prompt, wpath, apath, inFields, out, auth, wh, api, st) ==
    [Name |-> name, Type |-> type, Description |-> desc, Prompt |-> prompt,
     WebhookPath |-> wpath, APIPath |-> apath, InputSchema |-> inFields,
     OutputSchema |-> out, Auth |-> auth, Webhook |-> wh, API |-> api, Streaming |-> st]

DatagenConfig(dk, ck, services) ==
    [DatagenAPIKeyEnv |-> dk, ClaudeAPIKeyEnv |-> ck, Services |-> services]

\* Variant for comparison: any non-empty path passes.
HasSomePath(path) == Len(path) > 0

\* strings.HasPrefix(path, "/")
HasSlashPrefix(path) == Len(path) > 0 /\ path[1] = "/"

(***************************************************************************)
(* Validator (internal/config/validator.go).  Each operator returns the    *)
(* error text, "" for nil.                                                 *)
(***************************************************************************)
FieldTypes == {"str", "int", "float", "bool", "list", "dict", "any"}

validateField(field) ==
    IF field.Name = "" THEN "field name is required"
    ELSE IF field.Type \notin FieldTypes THEN "invalid field type"
    ELSE ""

validateAuth(auth) ==
    IF auth.Type \notin {"api_key", "bearer_token", "oauth", "none"} THEN "invalid auth type"
    ELSE IF auth.Type # "none" /\ auth.EnvVar = <<>> THEN "env_var is required"
    ELSE ""

validateWebhookConfig(wh) ==
    IF wh.SignatureVerification # ""
       /\ wh.SignatureVerification \notin {"hmac_sha256", "custom", "none"}
    THEN "invalid signature_verification"
    ELSE IF wh.SignatureVerification = "hmac_sha256" /\ wh.SignatureHeader = ""
    THEN "signature_header is required for hmac_sha256"
    ELSE IF wh.SignatureVerification = "hmac_sha256" /\ wh.SecretEnv = <<>>
    THEN "secret_env is required for hmac_sha256"
    ELSE IF wh.RetryEnabled /\ wh.MaxRetries <= 0
    THEN "max_retries must be > 0"
    ELSE ""

validateAPIConfig(api) ==
    IF api.Timeout <= 0 THEN "timeout must be > 0"
    ELSE IF api.RateLimitEnabled /\ api.RateLimitRPM <= 0 THEN "rate_limit_rpm must be > 0"
    ELSE IF api.ResponseFormat \notin {"json", "text", "custom"} THEN "invalid response_format"
    ELSE ""

validateStreamingConfig(stream) ==
    IF stream.Format \notin {"default", "json", "custom"} THEN "invalid format"
    ELSE IF stream.BufferSize <= 0 THEN "buffer_size must be > 0"
    ELSE ""

\* The first error among the fields of a schema, in field order.
RECURSIVE FirstFieldError(_)
FirstFieldError(fields) ==
    IF fields = <<>> THEN ""
    ELSE IF validateField(Head(fields)) # "" THEN validateField(Head(fields))
    ELSE FirstFieldError(Tail(fields))

validatePaths(svc) ==
    IF svc.Type = "webhook" THEN
        IF svc.WebhookPath = <<>> THEN "webhook_path is required"
        ELSE IF ~HasSlashPrefix(svc.WebhookPath) THEN "webhook_path must start with /"
        ELSE IF svc.Webhook # <<>> THEN validateWebhookConfig(svc.Webhook[1])
        ELSE ""
    ELSE IF svc.Type = "api" THEN
        IF svc.APIPath = <<>> THEN "api_path is required"
        ELSE IF ~HasSlashPrefix(svc.APIPath) THEN "api_path must start with /"
        ELSE IF svc.API # <<>> THEN validateAPIConfig(svc.API[1])
        ELSE ""
    ELSE
        IF svc.APIPath = <<>> THEN "api_path is required"
        ELSE IF ~HasSlashPrefix(svc.APIPath) THEN "api_path must start with /"
        ELSE IF svc.Streaming # <<>> THEN validateStreamingConfig(svc.Streaming[1])
        ELSE ""

\* Variant for comparison: the output schema is validated for every type.
validateServiceAnyOutput(svc, files) ==
    IF svc.Name = "" THEN "name is required"
    ELSE IF svc.Type = "" THEN "type is required"
    ELSE IF svc.Description = "" THEN "description is required"
    ELSE IF svc.Prompt = "" THEN "prompt is required"
    ELSE IF svc.Type \notin {"webhook", "api", "streaming"} THEN "invalid type"
    ELSE IF svc.Prompt \notin files THEN "prompt file not found"
    ELSE IF validatePaths(svc) # "" THEN validatePaths(svc)
    ELSE IF FirstFieldError(svc.InputSchema) # "" THEN FirstFieldError(svc.InputSchema)
    ELSE IF svc.OutputSchema # <<>> /\ FirstFieldError(svc.OutputSchema[1]) # ""
    THEN FirstFieldError(svc.OutputSchema[1])
    ELSE IF svc.Auth # <<>> THEN validateAuth(svc.Auth[1])
    ELSE ""

\* files: the prompt files that exist (os.Stat of configDir/Prompt).
validateService(svc, files) ==
    IF svc.Name = "" THEN "name is required"
    ELSE IF svc.Type = "" THEN "type is required"
    ELSE IF svc.Description = "" THEN "description is required"
    ELSE IF svc.Prompt = "" THEN "prompt is required"
    ELSE IF svc.Type \notin {"webhook", "api", "streaming"} THEN "invalid type"
    ELSE IF svc.Prompt \notin files THEN "prompt file not found"
    ELSE IF validatePaths(svc) # "" THEN validatePaths(svc)
    ELSE IF FirstFieldError(svc.InputSchema) # "" THEN FirstFieldError(svc.InputSchema)
    ELSE IF svc.Type = "api" /\ svc.OutputSchema # <<>>
            /\ FirstFieldError(svc.OutputSchema[1]) # ""
    THEN FirstFieldError(svc.OutputSchema[1])
    ELSE IF svc.Auth # <<>> THEN validateAuth(svc.Auth[1])
    ELSE ""

\* A validation error: the rule, and for an error of validateService the
\* position (counted from 0, as in the message) and the name of the service.
\* rule = "" stands for nil.
ValidationError(inService, index, name, rule) ==
    [inService |-> inService, index |-> index, name |-> name, rule |-> rule]

NoError == ValidationError(FALSE, 0, "", "")

\* for i, svc := range cfg.Services: the wrapped error of the first service
\* that validateService rejects, from position i (counted from 1) on.
RECURSIVE FirstServiceFailure(_, _, _)
FirstServiceFailure(services, files, i) ==
    IF i > Len(services) THEN NoError
    ELSE IF validateService(services[i], files) # ""
    THEN ValidationError(TRUE, i - 1, services[i].Name, validateService(services[i], files))
    ELSE FirstServiceFailure(services, files, i + 1)

FirstServiceError(services, files) == FirstServiceFailure(services, files, 1).rule

\* Variant for comparison: the services are examined before the root fields.
ValidateConfigErrorServicesFirst(cfg, files) ==
    IF FirstServiceFailure(cfg.Services, files, 1).rule # ""
    THEN FirstServiceFailure(cfg.Services, files, 1)
    ELSE IF cfg.DatagenAPIKeyEnv = <<>>
    THEN ValidationError(FALSE, 0, "", "datagen_api_key_env is required")
    ELSE IF cfg.ClaudeAPIKeyEnv = <<>>
    THEN ValidationError(FALSE, 0, "", "claude_api_key_env is required")
    ELSE IF Len(cfg.Services) = 0
    THEN ValidationError(FALSE, 0, "", "at least one service must be defined")
    ELSE NoError

\* ValidateConfig with the parts of its error message kept apart.
ValidateConfigError(cfg, files) ==
    IF cfg.DatagenAPIKeyEnv = <<>>
    THEN ValidationError(FALSE, 0, "", "datagen_api_key_env is required")
    ELSE IF cfg.ClaudeAPIKeyEnv = <<>>
    THEN ValidationError(FALSE, 0, "", "claude_api_key_env is required")
    ELSE IF Len(cfg.Services) = 0
    THEN ValidationError(FALSE, 0, "", "at least one service must be defined")
    ELSE FirstServiceFailure(cfg.Services, files, 1)

\* The error text, "" for nil.
ValidateConfig(cfg, files) == ValidateConfigError(cfg, files).rule

(***************************************************************************)
(* Pieces of the generated files.                                          *)
(***************************************************************************)
\* A zone sentinel line: "# === <zone> START ===" / "# === <zone> END ===".
Marker(zone, which) == Piece("marker", zone, which, "gen")

\* Fixed text of a template between the zones.
Text(label) == Piece("text", "", label, "gen")

\* The health list: `"services": [`, one quoted name per service, `],`.
ListOpen(o) == Piece("list", "", "open", o)
ListClose(o) == Piece("list", "", "close", o)
ListName(name, o) == Piece("name", name, "", o)

Zones == {"AGENT LOADING", "ENDPOINT HANDLERS", "SERVICE MODELS"}

(***************************************************************************)
(* generateEndpointCode: the handler block of one service, one piece per   *)
(* emitted statement, in template order.                                   *)
(***************************************************************************)
Ep(svc, label) == Piece("ep", svc.Name, label, "gen")

\* Variant for comparison: any named scheme gets a helper.
HasSignatureScheme(svc) ==
    svc.Webhook # <<>> /\ svc.Webhook[1].SignatureVerification \notin {"", "none"}

HasHmac(svc) ==
    svc.Webhook # <<>> /\ svc.Webhook[1].SignatureVerification = "hmac_sha256"

\* {{if .Auth}} async def verify_<name>_auth(...) ... {{end}}
AuthBlock(svc) ==
    IF svc.Auth = <<>> THEN <<>>
    ELSE IF svc.Auth[1].Type = "api_key"
    THEN <<Ep(svc, "def verify_auth(header)"), Ep(svc, "expected_key = getattr"),
           Ep(svc, "if not expected_key: return"), Ep(svc, "if header is None: 401"),
           Ep(svc, "if header != expected_key: 401")>>
    ELSE IF svc.Auth[1].Type = "bearer_token"
    THEN <<Ep(svc, "def verify_auth(authorization)"), Ep(svc, "expected_token = getattr"),
           Ep(svc, "if not expected_token: return"), Ep(svc, "if authorization is None: 401"),
           Ep(svc, "if not Bearer: 401"), Ep(svc, "if token != expected_token: 401")>>
    ELSE <<Ep(svc, "def verify_auth()")>>

DependsLine(svc) == IF svc.Auth = <<>> THEN <<>> ELSE <<Ep(svc, "Depends(verify_auth)")>>

\* The signature helper of the incremental mini-template: header, then secret.
SignatureHelper(svc) ==
    IF ~HasHmac(svc) THEN <<>>
    ELSE <<Ep(svc, "def verify_signature"),
           Ep(svc, "signature = request.headers.get"),
           Ep(svc, "if not signature: 401"),
           Ep(svc, "secret = getattr"),
           Ep(svc, "if not secret: return"),
           Ep(svc, "compare_digest")>>

SignatureCall(svc) ==
    IF HasHmac(svc) THEN <<Ep(svc, "body = await request.body()"),
                           Ep(svc, "verify_signature(request, body)")>>
    ELSE <<>>

WebhookBody(svc) ==
    <<Ep(svc, "async def task")>> \o <<Ep(svc, "@app.post(WebhookPath)")>>
    \o <<Ep(svc, "async def handler")>> \o DependsLine(svc)
    \o <<Ep(svc, "docstring: Webhook")>> \o SignatureCall(svc)
    \o <<Ep(svc, "background_tasks.add_task"), Ep(svc, "return accepted")>>

APIBody(svc) ==
    <<Ep(svc, IF svc.OutputSchema # <<>> THEN "@app.post(APIPath, response_model)"
              ELSE "@app.post(APIPath)")>>
    \o <<Ep(svc, "async def handler")>> \o DependsLine(svc)
    \o <<Ep(svc, "docstring: API")>>
    \o (IF svc.API # <<>> THEN <<Ep(svc, "Timeout")>> ELSE <<>>)
    \o <<Ep(svc, "result = await executor.execute")>>
    \o <<Ep(svc, IF svc.OutputSchema # <<>> THEN "return Output(result)"
                 ELSE "return completed")>>
    \o <<Ep(svc, "except: 500")>>

StreamingBody(svc) ==
    <<Ep(svc, "@app.post(APIPath)")>>
    \o <<Ep(svc, "async def handler")>> \o DependsLine(svc)
    \o <<Ep(svc, "docstring: Streaming"), Ep(svc, "async def event_generator")>>
    \o <<Ep(svc, IF svc.Streaming # <<>> /\ svc.Streaming[1].Format = "json"
                 THEN "yield json chunk" ELSE "yield text chunk")>>
    \o <<Ep(svc, "yield done"), Ep(svc, "yield error"), Ep(svc, "return StreamingResponse")>>

generateEndpointCode(svc) ==
    IF svc.Type = "webhook"
    THEN <<Ep(svc, "# Webhook endpoint")>> \o AuthBlock(svc) \o SignatureHelper(svc)
         \o WebhookBody(svc)
    ELSE IF svc.Type = "api"
    THEN <<Ep(svc, "# API endpoint")>> \o AuthBlock(svc) \o APIBody(svc)
    ELSE IF svc.Type = "streaming"
    THEN <<Ep(svc, "# Streaming endpoint")>> \o AuthBlock(svc) \o StreamingBody(svc)
    ELSE <<>>

(***************************************************************************)
(* generateModelCode: the Pydantic block of one service.                   *)
(***************************************************************************)
ModelField(svc, field) == Piece("field", svc.Name, field.Name, "gen")

ModelFields(svc, fields) == [i \in 1..Len(fields) |-> ModelField(svc, fields[i])]

generateModelCode(svc) ==
    <<Piece("model", svc.Name, "Input", "gen")>> \o ModelFields(svc, svc.InputSchema)
    \o (IF svc.OutputSchema # <<>>
        THEN <<Piece("model", svc.Name, "Output", "gen")>>
             \o ModelFields(svc, svc.OutputSchema[1])
        ELSE <<>>)

\* The agent-registration statement of one service.
agentLoadingCode(svc) == Piece("reg", svc.Name, svc.Prompt, "gen")

(***************************************************************************)
(* The full-generation templates (templates/main.py.tmpl, models.py.tmpl). *)
(* The handler block of main.py.tmpl has the shape of the incremental      *)
(* block, with the signature helper testing the secret before the header.  *)
(***************************************************************************)
TemplateSignatureHelper(svc) ==
    IF ~HasHmac(svc) THEN <<>>
    ELSE <<Ep(svc, "def verify_signature"),
           Ep(svc, "secret = getattr"),
           Ep(svc, "if not secret: return"),
           Ep(svc, "signature = request.headers.get"),
           Ep(svc, "if not signature: 401"),
           Ep(svc, "compare_digest")>>

TemplateHandler(svc) ==
    IF svc.Type = "webhook"
    THEN <<Ep(svc, "# Webhook endpoint")>> \o AuthBlock(svc) \o TemplateSignatureHelper(svc)
         \o WebhookBody(svc)
    ELSE IF svc.Type = "api"
    THEN <<Ep(svc, "# API endpoint")>> \o AuthBlock(svc) \o APIBody(svc)
    ELSE IF svc.Type = "streaming"
    THEN <<Ep(svc, "# Streaming endpoint")>> \o AuthBlock(svc) \o StreamingBody(svc)
    ELSE <<>>

ServiceNames(cfg) == [i \in 1..Len(cfg.Services) |-> cfg.Services[i].Name]

HealthList(cfg) ==
    <<ListOpen("gen")>>
    \o [i \in 1..Len(cfg.Services) |-> ListName(cfg.Services[i].Name, "gen")]
    \o <<ListClose("gen")>>

MainPyTemplate(cfg) ==
    <<Text("head"), Marker("AGENT LOADING", "START")>>
    \o [i \in 1..Len(cfg.Services) |-> agentLoadingCode(cfg.Services[i])]
    \o <<Marker("AGENT LOADING", "END"), Text("app"), Text("health")>>
    \o HealthList(cfg)
    \o <<Text("routes"), Marker("ENDPOINT HANDLERS", "START")>>
    \o Concat([i \in 1..Len(cfg.Services) |-> TemplateHandler(cfg.Services[i])])
    \o <<Marker("ENDPOINT HANDLERS", "END"), Text("tail")>>

ModelsPyTemplate(cfg) ==
    <<Text("head"), Marker("SERVICE MODELS", "START")>>
    \o Concat([i \in 1..Len(cfg.Services) |-> generateModelCode(cfg.Services[i])])
    \o <<Marker("SERVICE MODELS", "END")>>

(***************************************************************************)
(* .env.example: a sequence of lines [k, nm, val].  A variable line is     *)
(* nm=val; nm is a sequence of text fragments.                             *)
(***************************************************************************)
EnvVarLine(nm, val) == [k |-> "var", nm |-> nm, val |-> val]
EnvComment(text) == [k |-> "comment", nm |-> <<>>, val |-> text]
EnvBlank == [k |-> "blank", nm |-> <<>>, val |-> ""]

\* strings.ToUpper / strings.ToLower on one fragment.
UpperFragment(f) ==
    CASE f = "svc_" -> "SVC_"
      [] f = "key" -> "KEY"
      [] OTHER -> f

ToUpper(nm) == [i \in 1..Len(nm) |-> UpperFragment(nm[i])]

\* strings.Contains(envContent, varName+"="): "=" occurs only right after
\* the name of a variable line, so the match is a suffix of a defined name.
ContainsAssignment(envContent, varName) ==
    \E i \in 1..Len(envContent) :
        envContent[i].k = "var" /\ IsSuffix(varName, envContent[i].nm)

ServiceEnvLines(svc) ==
    (IF svc.Auth # <<>> /\ svc.Auth[1].EnvVar # <<>>
     THEN <<EnvBlank, EnvComment("Auth for service"),
            EnvVarLine(svc.Auth[1].EnvVar, "your-secret-here")>>
     ELSE <<>>)
    \o (IF svc.Webhook # <<>> /\ svc.Webhook[1].SecretEnv # <<>>
        THEN <<EnvVarLine(svc.Webhook[1].SecretEnv, "your-hmac-secret-here")>>
        ELSE <<>>)

generateEnvExample(cfg) ==
    <<EnvComment("Required"),
      EnvVarLine(cfg.ClaudeAPIKeyEnv, "your-anthropic-api-key-here"),
      EnvVarLine(cfg.DatagenAPIKeyEnv, "your-datagen-api-key-here"),
      EnvBlank, EnvComment("Optional"),
      EnvVarLine(<<"MODEL_NAME">>, "claude-sonnet-4-5"),
      EnvVarLine(<<"LOG_LEVEL">>, "INFO"),
      EnvVarLine(<<"PORT">>, "8000"),
      EnvVarLine(<<"PERMISSION_MODE">>, "bypassPermissions")>>
    \o Concat([i \in 1..Len(cfg.Services) |-> ServiceEnvLines(cfg.Services[i])])

(***************************************************************************)
(* Incremental patcher (internal/codegen/incremental.go).                  *)
(***************************************************************************)
\* Variant for comparison: the fragment goes after the marker line.
injectAfterMarker(content, marker, codeToInject) ==
    LET markerIndex == Index(content, marker) IN
    IF markerIndex = 0 THEN content
    ELSE SubSeq(content, 1, markerIndex) \o codeToInject
         \o SubSeq(content, markerIndex + 1, Len(content))

injectBeforeMarker(content, marker, codeToInject) ==
    LET markerIndex == Index(content, marker) IN
    IF markerIndex = 0 THEN content
    ELSE SubSeq(content, 1, markerIndex - 1) \o codeToInject
         \o SubSeq(content, markerIndex, Len(content))

updateHealthCheckServices(content, cfg) ==
    LET healthStart == Index(content, ListOpen("gen"))
        healthEnd == IF healthStart = 0 THEN 0
                     ELSE IndexFrom(content, ListClose("gen"), healthStart)
    IN  IF healthStart = 0 \/ healthEnd = 0 THEN content
        ELSE SubSeq(content, 1, healthStart - 1) \o HealthList(cfg)
             \o SubSeq(content, healthEnd + 1, Len(content))

\* The new content of main.py, before it is written back.
PatchedMainPy(cfg, newService, content) ==
    updateHealthCheckServices(
        injectBeforeMarker(
            injectBeforeMarker(content, Marker("AGENT LOADING", "END"),
                               <<agentLoadingCode(newService)>>),
            Marker("ENDPOINT HANDLERS", "END"), generateEndpointCode(newService)),
        cfg)

\* Each update returns [err, content]: the error text and the file afterwards.
\* failWrite: os.WriteFile fails, and the file keeps its content.
updateMainPy(cfg, newService, content, failWrite) ==
    IF content = <<>> THEN [err |-> "failed to read main.py", content |-> content]
    ELSE IF ~Contains(content, Marker("AGENT LOADING", "START"))
    THEN [err |-> "missing agent loading markers", content |-> content]
    ELSE IF ~Contains(content, Marker("ENDPOINT HANDLERS", "START"))
    THEN [err |-> "missing endpoint handlers markers", content |-> content]
    ELSE IF failWrite THEN [err |-> "write main.py", content |-> content]
    ELSE [err |-> "", content |-> PatchedMainPy(cfg, newService, content)]

updateModelsPy(newService, content, failWrite) ==
    IF content = <<>> THEN [err |-> "failed to read models.py", content |-> content]
    ELSE IF ~Contains(content, Marker("SERVICE MODELS", "START"))
    THEN [err |-> "missing service models markers", content |-> content]
    ELSE IF failWrite THEN [err |-> "write models.py", content |-> content]
    ELSE [err |-> "",
          content |-> injectBeforeMarker(content, Marker("SERVICE MODELS", "END"),
                                         generateModelCode(newService))]

\* The lines updateEnvExample collects in newVars.
NewEnvVars(newService, envContent) ==
    (IF newService.Auth # <<>> /\ newService.Auth[1].EnvVar # <<>>
        /\ ~ContainsAssignment(envContent, ToUpper(newService.Auth[1].EnvVar))
     THEN <<EnvBlank, EnvComment("authentication"),
            EnvVarLine(ToUpper(newService.Auth[1].EnvVar), "your_key_here")>>
     ELSE <<>>)
    \o (IF newService.Webhook # <<>> /\ newService.Webhook[1].SecretEnv # <<>>
           /\ ~ContainsAssignment(envContent, ToUpper(newService.Webhook[1].SecretEnv))
        THEN <<EnvBlank, EnvComment("webhook signature verification"),
               EnvVarLine(ToUpper(newService.Webhook[1].SecretEnv),
                          "your_webhook_secret_here")>>
        ELSE <<>>)

\* Variant for comparison: the file is rewritten with the new lines on top.
updateEnvExamplePrepend(newService, content, failWrite) ==
    IF content = <<>> THEN [err |-> "failed to read .env.example", content |-> content]
    ELSE IF NewEnvVars(newService, content) = <<>> THEN [err |-> "", content |-> content]
    ELSE IF failWrite THEN [err |-> "write .env.example", content |-> content]
    ELSE [err |-> "",
          content |-> NewEnvVars(newService, content) \o <<EnvBlank>> \o content]

updateEnvExample(newService, content, failWrite) ==
    IF content = <<>> THEN [err |-> "failed to read .env.example", content |-> content]
    ELSE IF NewEnvVars(newService, content) = <<>> THEN [err |-> "", content |-> content]
    ELSE IF failWrite THEN [err |-> "write .env.example", content |-> content]
    ELSE [err |-> "",
          content |-> content \o <<EnvBlank>> \o NewEnvVars(newService, content)]

\* Variant for comparison: a failing update is reported, the later ones run.
IncrementalAddServiceNoAbort(cfg, newService, files, fail) ==
    LET m == updateMainPy(cfg, newService, files.main, fail = "main.py")
        mo == updateModelsPy(newService, files.models, fail = "models.py")
        e == updateEnvExample(newService, files.env, fail = ".env.example")
        firstErr == IF m.err # "" THEN m.err ELSE IF mo.err # "" THEN mo.err ELSE e.err
    IN  [err |-> firstErr, main |-> m.content, models |-> mo.content,
         env |-> e.content, steps |-> <<"main.py", "models.py", ".env.example">>]

\* files = [main, models, env]; fail names the file whose write fails, if any.
\* Returns [err, main, models, env, steps]: steps lists the updates that ran.
IncrementalAddService(cfg, newService, files, fail) ==
    LET m == updateMainPy(cfg, newService, files.main, fail = "main.py")
        mo == updateModelsPy(newService, files.models, fail = "models.py")
        needsEnv == newService.Auth # <<>>
                    \/ (newService.Webhook # <<>> /\ newService.Webhook[1].SecretEnv # <<>>)
        e == updateEnvExample(newService, files.env, fail = ".env.example")
    IN  IF m.err # ""
        THEN [err |-> m.err, main |-> files.main, models |-> files.models,
              env |-> files.env, steps |-> <<"main.py">>]
        ELSE IF mo.err # ""
        THEN [err |-> mo.err, main |-> m.content, models |-> files.models,
              env |-> files.env, steps |-> <<"main.py", "models.py">>]
        ELSE IF ~needsEnv
        THEN [err |-> "", main |-> m.content, models |-> mo.content,
              env |-> files.env, steps |-> <<"main.py", "models.py">>]
        ELSE [err |-> e.err, main |-> m.content, models |-> mo.content,
              env |-> e.content, steps |-> <<"main.py", "models.py", ".env.example">>]

(***************************************************************************)
(* The services of the model: the project starts with chat; the others are *)
(* what the prompts of `datagen add` can collect.                          *)
(***************************************************************************)
SvcChat ==
    Service("chat", "api", "Chat endpoint", "chat.md", <<>>, <<"/", "api/chat">>, <<>>, <<>>,
            <<>>, <<>>, <<APIConfig("json", 30, FALSE, 0)>>, <<>>)

SvcHook ==
    Service("hook", "webhook", "Signup webhook", "hook.md", <<"/", "webhook/hook">>, <<>>,
            <<Field("email", "str", TRUE)>>, <<>>,
            <<Auth("api_key", "X-API-Key", <<"SVC_", "KEY">>)>>,
            <<WebhookConfig("hmac_sha256", "X-Signature", <<"HMAC_SECRET">>, FALSE, 0)>>,
            <<>>, <<>>)

SvcFeed ==
    Service("feed", "streaming", "Feed stream", "feed.md", <<>>, <<"/", "api/feed">>, <<>>, <<>>,
            <<Auth("bearer_token", "Authorization", <<"svc_", "key">>)>>, <<>>, <<>>,
            <<StreamingConfig("json", 8192)>>)

SvcCalc ==
    Service("calc", "api", "Calculator", "calc.md", <<>>, <<"/", "api/calc">>,
            <<Field("expr", "str", TRUE)>>, <<<<Field("value", "float", TRUE)>>>>,
            <<Auth("api_key", "X-API-Key", <<"KEY">>)>>, <<>>,
            <<APIConfig("json", 30, FALSE, 0)>>, <<>>)

\* Collected with the path typed without its leading slash.
SvcBad ==
    Service("bad", "api", "No slash", "bad.md", <<>>, <<"api/bad">>, <<>>, <<>>,
            <<>>, <<>>, <<APIConfig("json", 30, FALSE, 0)>>, <<>>)

\* Collected with the name of the service the project starts with.
SvcDup ==
    Service("chat", "webhook", "Second chat", "chat2.md", <<"/", "webhook/chat">>, <<>>,
            <<>>, <<>>, <<>>,
            <<WebhookConfig("none", "", <<>>, FALSE, 0)>>, <<>>, <<>>)

Catalogue == {SvcHook, SvcFeed, SvcCalc, SvcBad, SvcDup}

InitConfig == DatagenConfig(<<"DATAGEN_", "API_", "KEY">>, <<"ANTHROPIC_", "API_", "KEY">>,
                            <<SvcChat>>)

\* Which step of a command meets an I/O failure, if any.
FailPoints == {"none", "save", "prompt", ".env.example"}

NoFiles == [main |-> <<>>, models |-> <<>>, env |-> <<>>, toml |-> <<>>, prompts |-> {}]

\* The files as a command finds them.
Snapshot ==
    [main |-> mainPy, models |-> modelsPy, env |-> envEx, toml |-> toml.Services,
     prompts |-> prompts]

NoGen == [svc |-> <<>>, compiled |-> <<>>, patched |-> <<>>]

Last(op, err, svc, trace, pre) ==
    [op |-> op, err |-> err, svc |-> svc, trace |-> trace, pre |-> pre]

Init ==
    /\ toml = InitConfig
    /\ prompts = {"chat.md"}
    /\ mainPy = <<>>
    /\ modelsPy = <<>>
    /\ envEx = <<>>
    /\ edits = 0
    /\ last = Last("init", "", <<>>, <<>>, NoFiles)
    /\ gen = NoGen

(***************************************************************************)
(* datagen build (cmd/build.go): LoadConfig, then GenerateProject.         *)
(***************************************************************************)
\* LoadConfig: the parsed file, with the error of ValidateConfig.
LoadConfig(file, files) == [cfg |-> file, err |-> ValidateConfig(file, files)]

\* The files GenerateProject writes, in the order of its calls.
ProjectFiles ==
    <<"main.py", "agent.py", "config.py", "models.py", "__init__.py", "requirements.txt",
      "Dockerfile", ".env.example", "Procfile", "railway.json", "README.md">>

FileIndex(f) ==
    IF \E i \in 1..Len(ProjectFiles) : ProjectFiles[i] = f
    THEN CHOOSE i \in 1..Len(ProjectFiles) : ProjectFiles[i] = f
    ELSE 0

\* fmt.Errorf("failed to generate <file>: %w", err)
GenerateError(f) ==
    CASE f = "main.py" -> "failed to generate main.py"
      [] f = "agent.py" -> "failed to generate agent.py"
      [] f = "config.py" -> "failed to generate config.py"
      [] f = "models.py" -> "failed to generate models.py"
      [] f = "__init__.py" -> "failed to generate __init__.py"
      [] f = "requirements.txt" -> "failed to generate requirements.txt"
      [] f = "Dockerfile" -> "failed to generate Dockerfile"
      [] f = ".env.example" -> "failed to generate .env.example"
      [] f = "Procfile" -> "failed to generate Procfile"
      [] f = "railway.json" -> "failed to generate railway.json"
      [] f = "README.md" -> "failed to generate README.md"
      [] OTHER -> ""

\* Variant for comparison: the error of the first failing write is kept and
\* the later files are written all the same.
GenerateProjectContinue(cfg, files, fail) ==
    LET n == FileIndex(fail)
        mkdir == fail = "mkdir"
    IN  [err |-> IF mkdir THEN "failed to create output directory" ELSE GenerateError(fail),
         main |-> IF mkdir \/ fail = "main.py" THEN files.main ELSE MainPyTemplate(cfg),
         models |-> IF mkdir \/ fail = "models.py" THEN files.models
                    ELSE ModelsPyTemplate(cfg),
         env |-> IF mkdir \/ fail = ".env.example" THEN files.env
                 ELSE generateEnvExample(cfg),
         steps |-> IF mkdir THEN <<>> ELSE ProjectFiles,
         written |-> IF mkdir THEN <<>>
                     ELSE IF n = 0 THEN ProjectFiles
                     ELSE SubSeq(ProjectFiles, 1, n - 1)
                          \o SubSeq(ProjectFiles, n + 1, Len(ProjectFiles))]

\* GenerateProject creates the directories, then writes the files in order
\* and stops at the first step that fails.  fail names the file whose write
\* fails ("mkdir": the directories cannot be created; "none": no failure);
\* a failed write leaves the file as it was.  steps lists the writes that
\* ran, written the files that were written.
GenerateProject(cfg, files, fail) ==
    LET n == FileIndex(fail)
        mkdir == fail = "mkdir"
        done(f) == ~mkdir /\ (n = 0 \/ FileIndex(f) < n)
    IN  [err |-> IF mkdir THEN "failed to create output directory" ELSE GenerateError(fail),
         main |-> IF done("main.py") THEN MainPyTemplate(cfg) ELSE files.main,
         models |-> IF done("models.py") THEN ModelsPyTemplate(cfg) ELSE files.models,
         env |-> IF done(".env.example") THEN generateEnvExample(cfg) ELSE files.env,
         steps |-> IF mkdir THEN <<>>
                   ELSE IF n = 0 THEN ProjectFiles ELSE SubSeq(ProjectFiles, 1, n),
         written |-> IF mkdir THEN <<>>
                     ELSE IF n = 0 THEN ProjectFiles ELSE SubSeq(ProjectFiles, 1, n - 1)]

\* Every write of the build succeeds here.
runBuild ==
    LET loaded == LoadConfig(toml, prompts)
        g == GenerateProject(loaded.cfg, Snapshot, "none")
    IN  /\ IF loaded.err # ""
           THEN /\ last' = Last("build", "load", <<>>, <<"load">>, Snapshot)
                /\ UNCHANGED <<mainPy, modelsPy, envEx>>
           ELSE /\ mainPy' = g.main
                /\ modelsPy' = g.models
                /\ envEx' = g.env
                /\ last' = Last("build", g.err, <<>>, <<"load", "generate">> \o g.steps,
                                Snapshot)
        /\ UNCHANGED <<toml, prompts, edits, gen>>

(***************************************************************************)
(* datagen add (cmd/add.go).                                               *)
(***************************************************************************)
\* Variant for comparison: only the last service is compared.
IsDuplicateOfLast(cfg, newService) ==
    cfg.Services # <<>>
    /\ cfg.Services[Len(cfg.Services)].Name = newService.Name

IsDuplicate(cfg, newService) ==
    \E i \in 1..Len(cfg.Services) : cfg.Services[i].Name = newService.Name

\* Variant for comparison: the configuration is saved after a patch that
\* succeeded, and not at all after one that failed.
SavedConfigOnSuccess(old, cfg, r) == IF r.err = "" THEN cfg ELSE old

\* What SaveConfig has written when the patcher returns r: the configuration
\* is saved before IncrementalAddService is called, whatever it returns.
SavedConfig(old, cfg, r) == cfg

runAdd(newService, fail) ==
    LET loaded == LoadConfig(toml, prompts)
        cfg == [loaded.cfg EXCEPT !.Services = Append(@, newService)]
        r == IncrementalAddService(cfg, newService, Snapshot, fail)
    IN  /\ Len(toml.Services) < MaxServices
        /\ IF loaded.err # ""
           THEN /\ last' = Last("add", "load", <<>>, <<"load">>, Snapshot)
                /\ UNCHANGED <<toml, prompts, mainPy, modelsPy, envEx>>
           ELSE IF IsDuplicate(loaded.cfg, newService)
           THEN /\ last' = Last("add", "duplicate", <<newService>>,
                                <<"load", "collect", "duplicate">>, Snapshot)
                /\ UNCHANGED <<toml, prompts, mainPy, modelsPy, envEx>>
           ELSE IF fail = "save"
           THEN /\ last' = Last("add", "save", <<newService>>,
                                <<"load", "collect", "save">>, Snapshot)
                /\ UNCHANGED <<toml, prompts, mainPy, modelsPy, envEx>>
           ELSE /\ toml' = SavedConfig(loaded.cfg, cfg, r)
                /\ prompts' = IF fail = "prompt" THEN prompts
                              ELSE prompts \cup {newService.Prompt}
                /\ mainPy' = r.main
                /\ modelsPy' = r.models
                /\ envEx' = r.env
                /\ last' = Last("add", r.err, <<newService>>,
                                <<"load", "collect", "save", "prompt", "patch">> \o r.steps,
                                Snapshot)
        /\ UNCHANGED <<edits, gen>>

(***************************************************************************)
(* Hand edits of the generated files: the user owns them after generation. *)
(***************************************************************************)
RemoveAt(s, i) == SubSeq(s, 1, i - 1) \o SubSeq(s, i + 1, Len(s))

InsertBefore(s, i, t) == SubSeq(s, 1, i - 1) \o t \o SubSeq(s, i, Len(s))

\* The user deletes a sentinel line of app/main.py.
StripMainMarker(zone, which) ==
    /\ edits < MaxEdits
    /\ zone \in {"AGENT LOADING", "ENDPOINT HANDLERS"}
    /\ Contains(mainPy, Marker(zone, which))
    /\ mainPy' = RemoveAt(mainPy, Index(mainPy, Marker(zone, which)))
    /\ edits' = edits + 1
    /\ last' = Last("edit", "", <<>>, <<>>, NoFiles)
    /\ UNCHANGED <<toml, prompts, modelsPy, envEx, gen>>

\* The user deletes a sentinel line of app/models.py.
StripModelsMarker(which) ==
    /\ edits < MaxEdits
    /\ Contains(modelsPy, Marker("SERVICE MODELS", which))
    /\ modelsPy' = RemoveAt(modelsPy, Index(modelsPy, Marker("SERVICE MODELS", which)))
    /\ edits' = edits + 1
    /\ last' = Last("edit", "", <<>>, <<>>, NoFiles)
    /\ UNCHANGED <<toml, prompts, mainPy, envEx, gen>>

\* What the user may write on a line of their own: plain code, or a
\* statement that holds a list literal of its own, `"services": ["x"],`.
UserLines ==
    {<<Piece("user", "custom", "", "user")>>,
     <<ListOpen("user"), ListName("x", "user"), ListClose("user")>>}

\* The places outside every zone: before one of the fixed texts.
Anchors == {"head", "app", "tail"}

AddUserLine(anchor, line) ==
    /\ edits < MaxEdits
    /\ Contains(mainPy, Text(anchor))
    /\ mainPy' = InsertBefore(mainPy, Index(mainPy, Text(anchor)), line)
    /\ edits' = edits + 1
    /\ last' = Last("edit", "", <<>>, <<>>, NoFiles)
    /\ UNCHANGED <<toml, prompts, modelsPy, envEx, gen>>

Next ==
    \/ runBuild
    \/ \E newService \in Catalogue, fail \in FailPoints : runAdd(newService, fail)
    \/ \E zone \in Zones, which \in {"START", "END"} : StripMainMarker(zone, which)
    \/ \E which \in {"START", "END"} : StripModelsMarker(which)
    \/ \E anchor \in Anchors, line \in UserLines : AddUserLine(anchor, line)

Spec == Init /\ [][Next]_vars

(***************************************************************************)
(* The generators as functions of one service: every kind, with each auth  *)
(* type and without auth, with each signature scheme, output schema and    *)
(* streaming format.                                                       *)
(***************************************************************************)
AuthChoices ==
    {<<>>} \cup {<<Auth(t, "X-Header", <<"SVC_", "KEY">>)>> :
                    t \in {"api_key", "bearer_token", "oauth"}}

WebhookVariants ==
    {Service("svc", "webhook", "A webhook", "svc.md", <<"/", "webhook/svc">>, <<>>, <<>>,
             <<>>, a, <<WebhookConfig(sig, IF sig = "hmac_sha256" THEN "X-Signature" ELSE "",
                                      IF sig = "hmac_sha256" THEN <<"HMAC_SECRET">> ELSE <<>>,
                                      FALSE, 0)>>, <<>>, <<>>) :
        a \in AuthChoices, sig \in {"", "none", "custom", "hmac_sha256"}}
    \cup {Service("svc", "webhook", "A webhook", "svc.md", <<"/", "webhook/svc">>, <<>>,
                  <<>>, <<>>, a, <<>>, <<>>, <<>>) : a \in AuthChoices}

APIVariants ==
    {Service("svc", "api", "An API", "svc.md", <<>>, <<"/", "api/svc">>, <<>>, out, a,
             <<>>, <<APIConfig("json", 30, FALSE, 0)>>, <<>>) :
        a \in AuthChoices, out \in {<<>>, <<<<Field("value", "str", TRUE)>>>>}}

StreamingVariants ==
    {Service("svc", "streaming", "A stream", "svc.md", <<>>, <<"/", "api/svc">>, <<>>, <<>>,
             a, <<>>, <<>>, <<StreamingConfig(f, 8192)>>) :
        a \in AuthChoices, f \in {"default", "json"}}

ServiceVariants == WebhookVariants \cup APIVariants \cup StreamingVariants

\* The pieces strictly between the START and the END sentinel of a zone.
Zone(content, zone) ==
    LET from == Index(content, Marker(zone, "START"))
        to == Index(content, Marker(zone, "END"))
    IN  IF from = 0 \/ to = 0 \/ to < from THEN <<>>
        ELSE SubSeq(content, from + 1, to - 1)

ConfigOf(services) == [InitConfig EXCEPT !.Services = services]

InitGen ==
    /\ toml = InitConfig
    /\ prompts = {"chat.md"}
    /\ mainPy = <<>>
    /\ modelsPy = <<>>
    /\ envEx = <<>>
    /\ edits = 0
    /\ last = Last("init", "", <<>>, <<>>, NoFiles)
    /\ gen \in {[svc |-> <<s>>, compiled |-> <<>>, patched |-> <<>>] : s \in ServiceVariants}

\* Full generation of the project whose only service is gen.svc.
CompileOne ==
    /\ gen.compiled = <<>>
    /\ gen' = [gen EXCEPT !.compiled =
                  Zone(GenerateProject(ConfigOf(gen.svc), NoFiles, "none").main,
                       "ENDPOINT HANDLERS")]
    /\ UNCHANGED <<toml, prompts, mainPy, modelsPy, envEx, edits, last>>

\* Incremental addition of gen.svc to a generated main.py whose zones are empty.
PatchOne ==
    /\ gen.patched = <<>>
    /\ gen' = [gen EXCEPT !.patched =
                  Zone(updateMainPy(ConfigOf(gen.svc), gen.svc[1],
                                    MainPyTemplate(ConfigOf(<<>>)), FALSE).content,
                       "ENDPOINT HANDLERS")]
    /\ UNCHANGED <<toml, prompts, mainPy, modelsPy, envEx, edits, last>>

NextGen == CompileOne \/ PatchOne

SpecGen == InitGen /\ [][NextGen]_vars

(***************************************************************************)
(* ValidateConfig as a function of the configuration: every configuration *)
(* of a bounded family is validated once.  gen holds the returned error.   *)
(* The family is the product of the choices below for one service, and    *)
(* the configurations of up to MaxValServices services of a small pool     *)
(* with the root fields set or empty.                                      *)
(***************************************************************************)
MaxValServices == 2

GoodField == Field("q", "str", TRUE)
BadTypeField == Field("n", "string", FALSE)
NoNameField == Field("", "int", FALSE)

TypeChoices == {"", "webhook", "api", "streaming", "cron"}
PromptChoices == {"a.md", "missing.md"}
PathChoices == {<<>>, <<"hook">>, <<"/", "hook">>}
InputChoices == {<<>>, <<GoodField>>, <<GoodField, BadTypeField>>, <<NoNameField>>}
OutputChoices == {<<>>, <<<<GoodField>>>>, <<<<BadTypeField>>>>}
AuthValChoices ==
    {<<>>, <<Auth("api_key", "X-API-Key", <<"KEY">>)>>, <<Auth("basic", "", <<>>)>>,
     <<Auth("bearer_token", "", <<>>)>>}

WebhookChoices ==
    {WebhookConfig("hmac_sha256", "X-Signature", <<"HMAC_SECRET">>, FALSE, 0),
     WebhookConfig("hmac_sha256", "", <<"HMAC_SECRET">>, FALSE, 0),
     WebhookConfig("hmac_sha256", "X-Signature", <<>>, FALSE, 0),
     WebhookConfig("md5", "", <<>>, FALSE, 0),
     WebhookConfig("", "", <<>>, FALSE, 0),
     WebhookConfig("custom", "", <<>>, FALSE, 0),
     WebhookConfig("none", "", <<>>, TRUE, 0),
     WithBackoff(WebhookConfig("none", "", <<>>, TRUE, 3), "exponential"),
     WithBackoff(WebhookConfig("none", "", <<>>, TRUE, 3), "linear"),
     WithBackoff(WebhookConfig("none", "", <<>>, TRUE, 3), "random"),
     WebhookConfig("none", "", <<>>, TRUE, 3)}

APIChoices ==
    {APIConfig("json", 30, FALSE, 0), APIConfig("json", 0, FALSE, 0),
     APIConfig("text", 30, TRUE, 0), APIConfig("xml", 30, TRUE, 60)}

StreamingChoices ==
    {StreamingConfig("default", 8192), StreamingConfig("sse", 8192),
     StreamingConfig("json", 0)}

\* The type-specific settings: none, or one of the three populated.
SettingsChoices ==
    {[wh |-> <<>>, api |-> <<>>, st |-> <<>>]}
    \cup {[wh |-> <<w>>, api |-> <<>>, st |-> <<>>] : w \in WebhookChoices}
    \cup {[wh |-> <<>>, api |-> <<a>>, st |-> <<>>] : a \in APIChoices}
    \cup {[wh |-> <<>>, api |-> <<>>, st |-> <<s>>] : s \in StreamingChoices}

ValServices ==
    {Service("a", t, "A service", p, wp, ap, in, out, au, x.wh, x.api, x.st) :
        t \in TypeChoices, p \in PromptChoices, wp \in PathChoices, ap \in PathChoices,
        in \in InputChoices, out \in OutputChoices, au \in AuthValChoices,
        x \in SettingsChoices}

ValidAPI ==
    Service("a", "api", "An API", "a.md", <<>>, <<"/", "hook">>, <<GoodField>>, <<>>,
            <<>>, <<>>, <<>>, <<>>)

ValidWebhook ==
    Service("b", "webhook", "A webhook", "a.md", <<"/", "hook">>, <<>>, <<>>, <<>>,
            <<>>, <<>>, <<>>, <<>>)

\* Services with one or two defects each, for configurations of several.
ValPool ==
    {ValidAPI, ValidWebhook,
     [ValidAPI EXCEPT !.Name = ""],
     [ValidAPI EXCEPT !.Name = "c", !.Description = ""],
     [ValidAPI EXCEPT !.Name = "d", !.Prompt = ""],
     [ValidAPI EXCEPT !.Name = "e", !.Prompt = "missing.md", !.APIPath = <<>>],
     [ValidAPI EXCEPT !.Name = "f", !.Type = "cron"],
     [ValidWebhook EXCEPT !.Name = "g", !.WebhookPath = <<"hook">>,
                          !.Auth = <<Auth("basic", "", <<>>)>>],
     [ValidAPI EXCEPT !.Name = "h", !.InputSchema = <<BadTypeField>>,
                      !.API = <<APIConfig("json", 0, FALSE, 0)>>],
     [ValidWebhook EXCEPT !.Name = "i", !.Auth = <<Auth("api_key", "", <<>>)>>]}

ValSequences == UNION {[1..n -> ValPool] : n \in 0..MaxValServices}

KeyEnvChoices == {<<>>, <<"KEY">>}

ValConfigs ==
    {DatagenConfig(<<"DATAGEN_", "API_", "KEY">>, <<"ANTHROPIC_", "API_", "KEY">>, <<s>>) :
        s \in ValServices}
    \cup {DatagenConfig(dk, ck, ss) :
            dk \in KeyEnvChoices, ck \in KeyEnvChoices, ss \in ValSequences}

InitVal ==
    /\ toml \in ValConfigs
    /\ prompts = {"a.md"}
    /\ mainPy = <<>>
    /\ modelsPy = <<>>
    /\ envEx = <<>>
    /\ edits = 0
    /\ last = Last("init", "", <<>>, <<>>, NoFiles)
    /\ gen = [done |-> FALSE, err |-> NoError]

Validate ==
    /\ ~gen.done
    /\ gen' = [done |-> TRUE, err |-> ValidateConfigError(toml, prompts)]
    /\ last' = Last("validate", ValidateConfig(toml, prompts), <<>>, <<>>, NoFiles)
    /\ UNCHANGED <<toml, prompts, mainPy, modelsPy, envEx, edits>>

NextVal == Validate

SpecVal == InitVal /\ [][NextVal]_vars

(***************************************************************************)
(* GenerateProject on its own: one full generation over a project          *)
(* directory that is empty or holds older files, with a failure at any of  *)
(* its steps or none.  gen holds what the call returned.                   *)
(***************************************************************************)
BuildFailPoints == {"none", "mkdir"} \cup {ProjectFiles[i] : i \in 1..Len(ProjectFiles)}

BuildConfigs ==
    {ConfigOf(<<SvcChat>>), ConfigOf(<<SvcChat, SvcHook>>), ConfigOf(<<SvcHook, SvcFeed>>)}

\* What an earlier generation left in the directory.
OlderFiles ==
    {NoFiles} \cup
    {[main |-> MainPyTemplate(c), models |-> ModelsPyTemplate(c),
      env |-> generateEnvExample(c), toml |-> <<>>, prompts |-> {}] : c \in BuildConfigs}

InitBuild ==
    /\ toml \in BuildConfigs
    /\ prompts = {"chat.md", "hook.md", "feed.md"}
    /\ \E o \in OlderFiles : mainPy = o.main /\ modelsPy = o.models /\ envEx = o.env
    /\ edits = 0
    /\ last = Last("init", "", <<>>, <<>>, NoFiles)
    /\ gen \in {[done |-> FALSE, fail |-> f, err |-> "", steps |-> <<>>, written |-> <<>>] :
                  f \in BuildFailPoints}

Generate ==
    /\ ~gen.done
    /\ LET g == GenerateProject(toml, Snapshot, gen.fail)
       IN  /\ mainPy' = g.main
           /\ modelsPy' = g.models
           /\ envEx' = g.env
           /\ gen' = [done |-> TRUE, fail |-> gen.fail, err |-> g.err, steps |-> g.steps,
                      written |-> g.written]
           /\ last' = Last("generate", g.err, <<>>, g.steps, Snapshot)
    /\ UNCHANGED <<toml, prompts, edits>>

NextBuild == Generate

SpecBuild == InitBuild /\ [][NextBuild]_vars

(***************************************************************************)
(* NormalizeServiceName (internal/config/naming.go).  A string is a        *)
(* sequence of characters; the inputs are the strings of up to MaxNameLen  *)
(* characters over one character of each class the function tells apart.   *)
(***************************************************************************)
MaxNameLen == 4

NameChars == {"a", "B", "1", "_", "-", " ", "."}

LowerLetters ==
    {"a", "b", "c", "d", "e", "f", "g", "h", "i", "j", "k", "l", "m", "n", "o", "p", "q",
     "r", "s", "t", "u", "v", "w", "x", "y", "z"}

Digits == {"0", "1", "2", "3", "4", "5", "6", "7", "8", "9"}

\* unicode.ToLower, on the characters of NameChars.
ToLowerRune(r) == IF r = "B" THEN "b" ELSE r

\* unicode.IsSpace
IsSpace(r) == r = " "

\* strings.Trim(s, cutset) for a cutset of one character.
RECURSIVE TrimLeft(_, _)
TrimLeft(str, c) ==
    IF str # <<>> /\ Head(str) = c THEN TrimLeft(Tail(str), c) ELSE str

RECURSIVE TrimRight(_, _)
TrimRight(str, c) ==
    IF str # <<>> /\ str[Len(str)] = c THEN TrimRight(SubSeq(str, 1, Len(str) - 1), c)
    ELSE str

Trim(str, c) == TrimRight(TrimLeft(str, c), c)

\* The loop over the runes of raw, from position i, with the builder b.
RECURSIVE NormalizeLoop(_, _, _, _)
NormalizeLoop(raw, i, b, lastUnderscore) ==
    IF i > Len(raw) THEN b
    ELSE LET r == ToLowerRune(raw[i]) IN
         IF raw[i] = "-" \/ IsSpace(raw[i])
         THEN IF ~lastUnderscore THEN NormalizeLoop(raw, i + 1, Append(b, "_"), TRUE)
              ELSE NormalizeLoop(raw, i + 1, b, lastUnderscore)
         ELSE IF r \in LowerLetters \cup Digits \cup {"_"}
         THEN IF r = "_"
              THEN IF lastUnderscore THEN NormalizeLoop(raw, i + 1, b, lastUnderscore)
                   ELSE NormalizeLoop(raw, i + 1, Append(b, r), TRUE)
              ELSE NormalizeLoop(raw, i + 1, Append(b, r), FALSE)
         ELSE IF ~lastUnderscore THEN NormalizeLoop(raw, i + 1, Append(b, "_"), TRUE)
         ELSE NormalizeLoop(raw, i + 1, b, lastUnderscore)

\* Variant for comparison: a name that starts with a digit is returned as is.
NormalizeServiceNameNoPrefix(raw) ==
    LET trimmed == Trim(raw, " ")
        name == Trim(NormalizeLoop(trimmed, 1, <<>>, FALSE), "_")
    IN  IF trimmed = <<>> THEN <<"s", "e", "r", "v", "i", "c", "e">>
        ELSE IF name = <<>> THEN <<"s", "e", "r", "v", "i", "c", "e">>
        ELSE name

NormalizeServiceName(raw) ==
    LET trimmed == Trim(raw, " ")
        name == Trim(NormalizeLoop(trimmed, 1, <<>>, FALSE), "_")
    IN  IF trimmed = <<>> THEN <<"s", "e", "r", "v", "i", "c", "e">>
        ELSE IF name = <<>> THEN <<"s", "e", "r", "v", "i", "c", "e">>
        ELSE IF name[1] \in Digits THEN <<"s", "v", "c", "_">> \o name
        ELSE name

NameInputs == UNION {[1..n -> NameChars] : n \in 0..MaxNameLen}

InitName ==
    /\ toml = InitConfig
    /\ prompts = {"chat.md"}
    /\ mainPy = <<>>
    /\ modelsPy = <<>>
    /\ envEx = <<>>
    /\ edits = 0
    /\ last = Last("init", "", <<>>, <<>>, NoFiles)
    /\ gen \in {[raw |-> r, calls |-> 0, out |-> <<>>, again |-> <<>>] : r \in NameInputs}

\* NormalizeServiceName(raw)
Normalize ==
    /\ gen.calls = 0
    /\ gen' = [gen EXCEPT !.calls = 1, !.out = NormalizeServiceName(gen.raw)]
    /\ UNCHANGED <<toml, prompts, mainPy, modelsPy, envEx, edits, last>>

\* NormalizeServiceName of the name returned before.
NormalizeAgain ==
    /\ gen.calls = 1
    /\ gen' = [gen EXCEPT !.calls = 2, !.again = NormalizeServiceName(gen.out)]
    /\ UNCHANGED <<toml, prompts, mainPy, modelsPy, envEx, edits, last>>

NextName == Normalize \/ NormalizeAgain

SpecName == InitName /\ [][NextName]_vars

(***************************************************************************)
(* The login block of a shell profile (internal/auth/profile.go and        *)
(* lookup.go).  Text is a sequence of characters; the two marker lines,    *)
(* the keywords of the assignment and the variable name are one element    *)
(* each.                                                                   *)
(***************************************************************************)
MaxValueLen == 3

datagenBlockStart == "# >>> datagen login >>>"
datagenBlockEnd == "# <<< datagen login <<<"

Shells == {"bash", "zsh", "fish", "powershell"}

ValueChars == {"k", "'", "\"", "$", "\\", " ", "\n", "NUL"}

EnvVarNames == {"DATAGEN_API_KEY"}

\* strings.Index(str[from:], marker) for a marker line: the position in str,
\* 0 when absent.
TokenIndex(str, tok, from) ==
    IF \E i \in from..Len(str) : str[i] = tok
    THEN CHOOSE i \in from..Len(str) : str[i] = tok /\ \A j \in from..(i - 1) : str[j] # tok
    ELSE 0

\* strings.TrimSpace
RECURSIVE TrimSpace(_)
TrimSpace(str) ==
    IF str # <<>> /\ Head(str) \in {" ", "\n"} THEN TrimSpace(Tail(str))
    ELSE IF str # <<>> /\ str[Len(str)] \in {" ", "\n"}
    THEN TrimSpace(SubSeq(str, 1, Len(str) - 1))
    ELSE str

\* strings.ReplaceAll: the matches from the left, not overlapping.
RECURSIVE ReplaceAll(_, _, _)
ReplaceAll(str, old, new) ==
    IF str = <<>> THEN <<>>
    ELSE IF IsPrefix(old, str)
    THEN new \o ReplaceAll(SubSeq(str, Len(old) + 1, Len(str)), old, new)
    ELSE <<Head(str)>> \o ReplaceAll(Tail(str), old, new)

quotePOSIX(str) ==
    <<"'">> \o ReplaceAll(str, <<"'">>, <<"'", "\\", "'", "'">>) \o <<"'">>

quoteFish(str) ==
    <<"\"">>
    \o ReplaceAll(ReplaceAll(ReplaceAll(str, <<"\\">>, <<"\\", "\\">>),
                             <<"\"">>, <<"\\", "\"">>),
                  <<"$">>, <<"\\", "$">>)
    \o <<"\"">>

quotePowerShell(str) == <<"'">> \o ReplaceAll(str, <<"'">>, <<"'", "'">>) \o <<"'">>

\* The text before the quoted value on the assignment line of a shell.
LinePrefix(shell, envVar) ==
    IF shell = "fish" THEN <<"set -gx ", envVar, " ">>
    ELSE IF shell = "powershell" THEN <<"$env:", envVar, " = ">>
    ELSE <<"export ", envVar, "=">>

\* Returns [err, block].
RenderProfileBlock(shell, envVar, value) ==
    LET v == TrimSpace(value)
        quoted == IF shell = "fish" THEN quoteFish(v)
                  ELSE IF shell = "powershell" THEN quotePowerShell(v)
                  ELSE quotePOSIX(v)
    IN  IF envVar = "" THEN [err |-> "env var name is required", block |-> <<>>]
        ELSE IF v = <<>> THEN [err |-> "value is required", block |-> <<>>]
        ELSE IF \E i \in 1..Len(v) : v[i] = "NUL"
        THEN [err |-> "value contains NUL byte", block |-> <<>>]
        ELSE IF shell \notin Shells THEN [err |-> "unsupported shell", block |-> <<>>]
        ELSE [err |-> "",
              block |-> <<datagenBlockStart, "\n">> \o LinePrefix(shell, envVar) \o quoted
                        \o <<"\n", datagenBlockEnd, "\n">>]

\* strings.Split(str, "\n")
RECURSIVE Split(_, _)
Split(str, line) ==
    IF str = <<>> THEN <<line>>
    ELSE IF Head(str) = "\n" THEN <<line>> \o Split(Tail(str), <<>>)
    ELSE Split(Tail(str), Append(line, Head(str)))

\* Each unquote returns [value, ok].
unquotePOSIX(str) ==
    LET q == TrimSpace(str) IN
    IF Len(q) < 2 \/ q[1] # "'" \/ q[Len(q)] # "'" THEN [value |-> <<>>, ok |-> FALSE]
    ELSE [value |-> ReplaceAll(SubSeq(q, 2, Len(q) - 1), <<"'", "\\", "'", "'">>, <<"'">>),
          ok |-> TRUE]

\* The loop of unquoteFish over inner, from position i.
RECURSIVE UnescapeFish(_, _)
UnescapeFish(inner, i) ==
    IF i > Len(inner) THEN <<>>
    ELSE IF inner[i] = "\\" /\ i + 1 <= Len(inner) /\ inner[i + 1] \in {"\\", "\"", "$"}
    THEN <<inner[i + 1]>> \o UnescapeFish(inner, i + 2)
    ELSE <<inner[i]>> \o UnescapeFish(inner, i + 1)

unquoteFish(str) ==
    LET q == TrimSpace(str) IN
    IF Len(q) < 2 \/ q[1] # "\"" \/ q[Len(q)] # "\"" THEN [value |-> <<>>, ok |-> FALSE]
    ELSE [value |-> UnescapeFish(SubSeq(q, 2, Len(q) - 1), 1), ok |-> TRUE]

unquotePowerShell(str) ==
    LET q == TrimSpace(str) IN
    IF Len(q) < 2 \/ q[1] # "'" \/ q[Len(q)] # "'" THEN [value |-> <<>>, ok |-> FALSE]
    ELSE [value |-> ReplaceAll(SubSeq(q, 2, Len(q) - 1), <<"'", "'">>, <<"'">>),
          ok |-> TRUE]

\* The first of lines, from position i, that starts with prefix: unquoted.
RECURSIVE FirstAssignment(_, _, _, _)
FirstAssignment(lines, i, shell, prefix) ==
    IF i > Len(lines) THEN [value |-> <<>>, ok |-> FALSE]
    ELSE LET line == TrimSpace(lines[i]) IN
         IF IsPrefix(prefix, line)
         THEN LET rest == TrimSpace(SubSeq(line, Len(prefix) + 1, Len(line)))
              IN  IF shell = "fish" THEN unquoteFish(rest)
                  ELSE IF shell = "powershell" THEN unquotePowerShell(rest)
                  ELSE unquotePOSIX(rest)
         ELSE FirstAssignment(lines, i + 1, shell, prefix)

extractEnvVarFromDatagenBlock(contents, shell, envVar) ==
    LET start == TokenIndex(contents, datagenBlockStart, 1)
        end == IF start = 0 THEN 0 ELSE TokenIndex(contents, datagenBlockEnd, start)
    IN  IF start = 0 \/ end = 0 \/ shell \notin Shells
        THEN [value |-> <<>>, ok |-> FALSE]
        ELSE FirstAssignment(Split(SubSeq(contents, start, end - 1), <<>>), 1, shell,
                             LinePrefix(shell, envVar))

appendWithNewline(existing, block) ==
    IF existing = <<>> THEN block
    ELSE LET e == IF existing[Len(existing)] # "\n" THEN Append(existing, "\n")
                  ELSE existing
         IN  IF Len(e) >= 2 /\ e[Len(e) - 1] = "\n" THEN e \o block
             ELSE e \o <<"\n">> \o block

\* Variant for comparison: the newline after the old end marker is kept.
UpsertProfileBlockKeepNewline(existing, block) ==
    LET startIdx == TokenIndex(existing, datagenBlockStart, 1)
        endMarker == IF startIdx = 0 THEN 0
                     ELSE TokenIndex(existing, datagenBlockEnd, startIdx)
        updated == SubSeq(existing, 1, startIdx - 1) \o block
                   \o SubSeq(existing, endMarker + 1, Len(existing))
    IN  IF TokenIndex(block, datagenBlockStart, 1) = 0
           \/ TokenIndex(block, datagenBlockEnd, 1) = 0
        THEN [err |-> "block is missing datagen markers", text |-> <<>>]
        ELSE IF startIdx = 0 \/ endMarker = 0
        THEN [err |-> "", text |-> appendWithNewline(existing, block)]
        ELSE [err |-> "",
              text |-> IF updated[Len(updated)] # "\n" THEN Append(updated, "\n")
                       ELSE updated]

\* Returns [err, text].  A marker is one element, so the position after the
\* end marker is endMarker + 1.
UpsertProfileBlock(existing, block) ==
    LET startIdx == TokenIndex(existing, datagenBlockStart, 1)
        endMarker == IF startIdx = 0 THEN 0
                     ELSE TokenIndex(existing, datagenBlockEnd, startIdx)
        endIdx == IF endMarker < Len(existing) /\ existing[endMarker + 1] = "\n"
                  THEN endMarker + 1 ELSE endMarker
        updated == SubSeq(existing, 1, startIdx - 1) \o block
                   \o SubSeq(existing, endIdx + 1, Len(existing))
    IN  IF TokenIndex(block, datagenBlockStart, 1) = 0
           \/ TokenIndex(block, datagenBlockEnd, 1) = 0
        THEN [err |-> "block is missing datagen markers", text |-> <<>>]
        ELSE IF startIdx = 0 \/ endMarker = 0
        THEN [err |-> "", text |-> appendWithNewline(existing, block)]
        ELSE [err |-> "",
              text |-> IF updated[Len(updated)] # "\n" THEN Append(updated, "\n")
                       ELSE updated]

(***************************************************************************)
(* Upsert: a rendered block is put into a profile, twice.  The profile is  *)
(* text of up to MaxTextLen characters, then nothing or an older block     *)
(* (whole, without the newline after it, or cut off before its end         *)
(* marker), then text again.                                               *)
(***************************************************************************)
MaxTextLen == 2

ProfileTexts == UNION {[1..n -> {"x", "\n"}] : n \in 0..MaxTextLen}

OldBlock == RenderProfileBlock("zsh", "DATAGEN_API_KEY", <<"k", "1">>).block

OlderBlocks ==
    {<<>>, OldBlock, SubSeq(OldBlock, 1, Len(OldBlock) - 1),
     SubSeq(OldBlock, 1, Len(OldBlock) - 2)}

NewBlocks ==
    {RenderProfileBlock(sh, "DATAGEN_API_KEY", <<"k", "2">>).block : sh \in {"zsh", "fish"}}

InitUpsert ==
    /\ toml = InitConfig
    /\ prompts = {"chat.md"}
    /\ mainPy = <<>>
    /\ modelsPy = <<>>
    /\ envEx = <<>>
    /\ edits = 0
    /\ last = Last("init", "", <<>>, <<>>, NoFiles)
    /\ gen \in {[before |-> b, old |-> o, after |-> a, block |-> n, calls |-> 0,
                 once |-> <<>>, twice |-> <<>>] :
                  b \in ProfileTexts, o \in OlderBlocks, a \in ProfileTexts, n \in NewBlocks}

\* UpsertProfileBlock on the profile.
Upsert ==
    /\ gen.calls = 0
    /\ gen' = [gen EXCEPT !.calls = 1,
                          !.once = UpsertProfileBlock(gen.before \o gen.old \o gen.after,
                                                      gen.block).text]
    /\ UNCHANGED <<toml, prompts, mainPy, modelsPy, envEx, edits, last>>

\* UpsertProfileBlock of the same block on the result.
UpsertAgain ==
    /\ gen.calls = 1
    /\ gen' = [gen EXCEPT !.calls = 2,
                          !.twice = UpsertProfileBlock(gen.once, gen.block).text]
    /\ UNCHANGED <<toml, prompts, mainPy, modelsPy, envEx, edits, last>>

NextUpsert == Upsert \/ UpsertAgain

SpecUpsert == InitUpsert /\ [][NextUpsert]_vars

(***************************************************************************)
(* Render, then look up: a value of up to MaxValueLen characters is        *)
(* rendered for a shell and read back from the block.                      *)
(***************************************************************************)
Values == UNION {[1..n -> ValueChars] : n \in 0..MaxValueLen}

InitProfile ==
    /\ toml = InitConfig
    /\ prompts = {"chat.md"}
    /\ mainPy = <<>>
    /\ modelsPy = <<>>
    /\ envEx = <<>>
    /\ edits = 0
    /\ last = Last("init", "", <<>>, <<>>, NoFiles)
    /\ gen \in {[shell |-> sh, envVar |-> n, value |-> v, stage |-> "new", err |-> "",
                 block |-> <<>>, found |-> FALSE, got |-> <<>>] :
                  sh \in Shells, n \in EnvVarNames, v \in Values}

Render ==
    /\ gen.stage = "new"
    /\ LET r == RenderProfileBlock(gen.shell, gen.envVar, gen.value)
       IN  gen' = [gen EXCEPT !.stage = IF r.err = "" THEN "rendered" ELSE "refused",
                              !.err = r.err, !.block = r.block]
    /\ UNCHANGED <<toml, prompts, mainPy, modelsPy, envEx, edits, last>>

Extract ==
    /\ gen.stage = "rendered"
    /\ LET x == extractEnvVarFromDatagenBlock(gen.block, gen.shell, gen.envVar)
       IN  gen' = [gen EXCEPT !.stage = "extracted", !.found = x.ok, !.got = x.value]
    /\ UNCHANGED <<toml, prompts, mainPy, modelsPy, envEx, edits, last>>

NextProfile == Render \/ Extract

SpecProfile == InitProfile /\ [][NextProfile]_vars

(***************************************************************************)
(* datagen deploy (cmd/deploy.go): the keys of the "# Required" section of *)
(* .env.example.  A line without "=" that is no comment is a "text" line.  *)
(***************************************************************************)
EnvTextLine == [k |-> "text", nm |-> <<>>, val |-> "word"]

\* strings.EqualFold(text, word) on the comment texts of the model.
EqualFold(text, word) ==
    \/ text = word
    \/ word = "Required" /\ text \in {"REQUIRED", "required"}
    \/ word = "Optional" /\ text \in {"OPTIONAL", "optional"}

\* The loop over the lines, from line i.
RECURSIVE RequiredKeysLoop(_, _, _, _)
RequiredKeysLoop(lines, i, inRequired, keys) ==
    IF i > Len(lines) THEN keys
    ELSE IF lines[i].k = "blank"
    THEN IF inRequired THEN keys ELSE RequiredKeysLoop(lines, i + 1, inRequired, keys)
    ELSE IF lines[i].k = "comment"
    THEN IF EqualFold(lines[i].val, "Required")
         THEN RequiredKeysLoop(lines, i + 1, TRUE, keys)
         ELSE IF inRequired /\ EqualFold(lines[i].val, "Optional") THEN keys
         ELSE RequiredKeysLoop(lines, i + 1, inRequired, keys)
    ELSE IF ~inRequired THEN RequiredKeysLoop(lines, i + 1, inRequired, keys)
    ELSE IF lines[i].k = "var" /\ lines[i].nm # <<>>
    THEN RequiredKeysLoop(lines, i + 1, inRequired, Append(keys, lines[i].nm))
    ELSE RequiredKeysLoop(lines, i + 1, inRequired, keys)

\* Variant for comparison: a blank line does not end the section.
requiredKeysFromEnvExampleAcrossBlanks(content) ==
    RequiredKeysLoop(SelectSeq(content, LAMBDA ln : ln.k # "blank"), 1, FALSE, <<>>)

\* content = <<>>: the file cannot be read, and the result is nil.
requiredKeysFromEnvExample(content) == RequiredKeysLoop(content, 1, FALSE, <<>>)

(***************************************************************************)
(* .env.example as deploy finds it: written by the build and extended by   *)
(* adds, or written by hand with up to MaxEnvLines lines.                  *)
(***************************************************************************)
MaxEnvLines == 4
MaxAppends == 2

HandLines ==
    {EnvComment("Required"), EnvComment("Optional"), EnvComment("note"), EnvBlank,
     EnvVarLine(<<"A">>, "1"), EnvVarLine(<<"B">>, "2"), EnvVarLine(<<>>, "3"), EnvTextLine}

HandFiles == UNION {[1..n -> HandLines] : n \in 0..MaxEnvLines}

EnvConfigs ==
    {InitConfig, [InitConfig EXCEPT !.Services = <<SvcChat, SvcHook>>],
     DatagenConfig(<<"KEY">>, <<"SVC_", "KEY">>, <<SvcChat>>)}

InitEnv ==
    /\ prompts = {"chat.md"}
    /\ mainPy = <<>>
    /\ modelsPy = <<>>
    /\ edits = 0
    /\ last = Last("init", "", <<>>, <<>>, NoFiles)
    /\ \/ /\ toml \in EnvConfigs
          /\ envEx = generateEnvExample(toml)
          /\ gen = [generated |-> TRUE, appends |-> 0, read |-> FALSE, keys |-> <<>>]
       \/ /\ toml = InitConfig
          /\ envEx \in HandFiles
          /\ gen = [generated |-> FALSE, appends |-> 0, read |-> FALSE, keys |-> <<>>]

\* An add extends the file: updateEnvExample for one service.
AppendEnv(newService) ==
    /\ gen.appends < MaxAppends
    /\ envEx' = updateEnvExample(newService, envEx, FALSE).content
    /\ gen' = [gen EXCEPT !.appends = @ + 1, !.read = FALSE, !.keys = <<>>]
    /\ UNCHANGED <<toml, prompts, mainPy, modelsPy, edits, last>>

\* deploy reads the required keys.
ReadRequiredKeys ==
    /\ ~gen.read
    /\ gen' = [gen EXCEPT !.read = TRUE, !.keys = requiredKeysFromEnvExample(envEx)]
    /\ UNCHANGED <<toml, prompts, mainPy, modelsPy, envEx, edits, last>>

NextEnv ==
    \/ \E newService \in Catalogue : AppendEnv(newService)
    \/ ReadRequiredKeys

SpecEnv == InitEnv /\ [][NextEnv]_vars

(***************************************************************************)
(* datagen deploy: the variables to set (cmd/deploy.go).  A flag, a key    *)
(* and a value are sequences of characters; a map is a function from keys. *)
(* localEnv is the map loadDotEnvFile returns for .env, osEnv the process  *)
(* environment.                                                            *)
(***************************************************************************)
variableValue(value, source) == [Value |-> value, Source |-> source]

NoVariables == [k \in {} |-> variableValue(<<>>, "")]

\* m[k] = v
Put(m, k, v) == [x \in DOMAIN m \cup {k} |-> IF x = k THEN v ELSE m[x]]

\* m[k] of a Go map of strings: "" for a key that is absent.
Lookup(m, k) == IF k \in DOMAIN m THEN m[k] ELSE <<>>

\* The loop over the flags, from flag i.  Returns [err, out].
RECURSIVE ParseVarLoop(_, _, _, _, _)
ParseVarLoop(flags, i, out, localEnv, osEnv) ==
    IF i > Len(flags) THEN [err |-> "", out |-> out]
    ELSE LET raw == TrimSpace(flags[i])
             eq == TokenIndex(raw, "=", 1)
             k == TrimSpace(SubSeq(raw, 1, eq - 1))
         IN  IF raw = <<>> THEN ParseVarLoop(flags, i + 1, out, localEnv, osEnv)
             ELSE IF eq # 0
             THEN IF k = <<>> THEN [err |-> "invalid --var (missing KEY)", out |-> NoVariables]
                  ELSE ParseVarLoop(flags, i + 1,
                                    Put(out, k, variableValue(SubSeq(raw, eq + 1, Len(raw)),
                                                              "flag")),
                                    localEnv, osEnv)
             ELSE IF TrimSpace(Lookup(localEnv, raw)) # <<>>
             THEN ParseVarLoop(flags, i + 1,
                               Put(out, raw, variableValue(TrimSpace(Lookup(localEnv, raw)),
                                                           ".env")),
                               localEnv, osEnv)
             ELSE IF raw \in DOMAIN osEnv /\ TrimSpace(osEnv[raw]) # <<>>
             THEN ParseVarLoop(flags, i + 1, Put(out, raw, variableValue(osEnv[raw], "env")),
                               localEnv, osEnv)
             ELSE ParseVarLoop(flags, i + 1, out, localEnv, osEnv)

parseVarFlags(flags, localEnv, osEnv) == ParseVarLoop(flags, 1, NoVariables, localEnv, osEnv)

\* The loop over the required keys, from key i.  entered: what the user
\* types at a prompt, <<>> when the prompt is interrupted.
RECURSIVE FillRequiredLoop(_, _, _, _, _, _)
FillRequiredLoop(requiredKeys, i, found, localEnv, osEnv, entered) ==
    IF i > Len(requiredKeys) THEN [err |-> "", vars |-> found]
    ELSE LET key == requiredKeys[i] IN
         IF key \in DOMAIN found
         THEN FillRequiredLoop(requiredKeys, i + 1, found, localEnv, osEnv, entered)
         ELSE IF TrimSpace(Lookup(localEnv, key)) # <<>>
         THEN FillRequiredLoop(requiredKeys, i + 1,
                               Put(found, key, variableValue(TrimSpace(Lookup(localEnv, key)),
                                                            ".env")),
                               localEnv, osEnv, entered)
         ELSE IF key \in DOMAIN osEnv /\ TrimSpace(osEnv[key]) # <<>>
         THEN FillRequiredLoop(requiredKeys, i + 1,
                               Put(found, key, variableValue(osEnv[key], "env")),
                               localEnv, osEnv, entered)
         ELSE IF entered = <<>> THEN [err |-> "interrupt", vars |-> NoVariables]
         ELSE FillRequiredLoop(requiredKeys, i + 1,
                               Put(found, key, variableValue(TrimSpace(entered), "prompt")),
                               localEnv, osEnv, entered)

\* Returns [err, vars].
collectRailwayVariables(envExample, flags, localEnv, osEnv, entered) ==
    LET keys == requiredKeysFromEnvExample(envExample)
        requiredKeys == IF keys = <<>> THEN <<<<"ANTHROPIC_API_KEY">>, <<"DATAGEN_API_KEY">>>>
                        ELSE keys
        parsed == parseVarFlags(flags, localEnv, osEnv)
    IN  IF parsed.err # "" THEN [err |-> parsed.err, vars |-> NoVariables]
        ELSE FillRequiredLoop(requiredKeys, 1, parsed.out, localEnv, osEnv, entered)

(***************************************************************************)
(* Up to MaxFlags --var flags of up to MaxFlagLen characters, with the key *)
(* K given or not in .env and in the environment, and the required keys K  *)
(* and R of .env.example, or no .env.example.                              *)
(***************************************************************************)
MaxFlags == 2
MaxFlagLen == 3

FlagChars == {"K", "=", " "}

FlagStrings == UNION {[1..n -> FlagChars] : n \in 0..MaxFlagLen}

FlagLists == UNION {[1..n -> FlagStrings] : n \in 0..MaxFlags}

\* The maps over some of the keys, with the given values.
MapsOver(keys, values) == UNION {[d -> values] : d \in SUBSET keys}

DotEnvMaps ==
    {m \in MapsOver({<<"K">>, <<"R">>}, {<<" ">>, <<"d">>}) :
        <<"R">> \in DOMAIN m => m[<<"R">>] = <<"d">>}

OsEnvMaps ==
    {m \in MapsOver({<<"K">>, <<"R">>}, {<<" ">>, <<"e">>}) :
        <<"R">> \in DOMAIN m => m[<<"R">>] = <<"e">>}

DeployEnvExample ==
    <<EnvComment("Required"), EnvVarLine(<<"K">>, "k"), EnvVarLine(<<"R">>, "r"), EnvBlank,
      EnvComment("Optional"), EnvVarLine(<<"PORT">>, "8000")>>

InitVars ==
    /\ toml = InitConfig
    /\ prompts = {"chat.md"}
    /\ mainPy = <<>>
    /\ modelsPy = <<>>
    /\ envEx \in {<<>>, DeployEnvExample}
    /\ edits = 0
    /\ last = Last("init", "", <<>>, <<>>, NoFiles)
    /\ gen \in {[flags |-> f, localEnv |-> l, osEnv |-> o, entered |-> <<>>, stage |-> "new",
                 err |-> "", out |-> NoVariables] :
                  f \in FlagLists, l \in DotEnvMaps, o \in OsEnvMaps}

\* parseVarFlags on the flags of the command line.
ParseFlags ==
    /\ gen.stage = "new"
    /\ LET p == parseVarFlags(gen.flags, gen.localEnv, gen.osEnv)
       IN  gen' = [gen EXCEPT !.stage = "parsed", !.err = p.err, !.out = p.out]
    /\ UNCHANGED <<toml, prompts, mainPy, modelsPy, envEx, edits, last>>

\* collectRailwayVariables, with what the user does at a prompt.
CollectVariables(entered) ==
    /\ gen.stage = "new"
    /\ LET c == collectRailwayVariables(envEx, gen.flags, gen.localEnv, gen.osEnv, entered)
       IN  gen' = [gen EXCEPT !.stage = "collected", !.entered = entered, !.err = c.err,
                              !.out = c.vars]
    /\ UNCHANGED <<toml, prompts, mainPy, modelsPy, envEx, edits, last>>

NextVars ==
    \/ ParseFlags
    \/ \E entered \in {<<>>, <<"p">>} : CollectVariables(entered)

SpecVars == InitVars /\ [][NextVars]_vars

(***************************************************************************)
(* Codex configuration (internal/mcpconfig/mcpconfig.go).  The file is a   *)
(* sequence of characters; a table header, a key, the rest of a key line   *)
(* and a comment are single elements, a space and a newline are one        *)
(* character each.                                                         *)
(***************************************************************************)
TableHeaders == {"[features]", "[mcp_servers.datagen]", "[mcp_servers.other]"}

\* strings.HasPrefix(trim, "["), strings.HasPrefix(trim, "#") and
\* strings.HasPrefix(trim, "rmcp_client") on a trimmed line.
StartsWithBracket(trim) == trim # <<>> /\ trim[1] \in TableHeaders

StartsWithHash(trim) == trim # <<>> /\ trim[1] = "# note"

StartsWithRmcpClient(trim) == trim # <<>> /\ trim[1] \in {"rmcp_client", "rmcp_client_x"}

\* strings.Join(lines, "\n")
RECURSIVE Join(_)
Join(lines) ==
    IF lines = <<>> THEN <<>>
    ELSE IF Len(lines) = 1 THEN lines[1]
    ELSE lines[1] \o <<"\n">> \o Join(Tail(lines))

\* line[:len(line)-len(strings.TrimLeft(line, " \t"))]
LeadingWhitespace(line) == SubSeq(line, 1, Len(line) - Len(TrimLeft(line, " ")))

RmcpClientTrue == <<"rmcp_client", " = true">>

\* The first line that is the header, 0 when there is none.
HeaderLine(lines, header) ==
    IF \E i \in 1..Len(lines) : TrimSpace(lines[i]) = <<header>>
    THEN CHOOSE i \in 1..Len(lines) :
            /\ TrimSpace(lines[i]) = <<header>>
            /\ \A j \in 1..(i - 1) : TrimSpace(lines[j]) # <<header>>
    ELSE 0

\* The loop over the lines after [features], from line j.
RECURSIVE FeaturesLoop(_, _, _)
FeaturesLoop(lines, j, indent) ==
    IF j > Len(lines)
    THEN Join((IF lines[Len(lines)] # <<>> THEN Append(lines, <<>>) ELSE lines)
              \o <<RmcpClientTrue>>)
    ELSE LET trim == TrimSpace(lines[j])
             indent2 == IF indent = <<>> /\ lines[j] # <<>> THEN LeadingWhitespace(lines[j])
                        ELSE indent
         IN  IF StartsWithBracket(trim)
             THEN Join(SubSeq(lines, 1, j - 1) \o <<indent \o RmcpClientTrue>>
                       \o SubSeq(lines, j, Len(lines)))
             ELSE IF trim = <<>> \/ StartsWithHash(trim)
             THEN FeaturesLoop(lines, j + 1, indent2)
             ELSE IF StartsWithRmcpClient(trim)
             THEN Join([lines EXCEPT ![j] = LeadingWhitespace(lines[j]) \o RmcpClientTrue])
             ELSE FeaturesLoop(lines, j + 1, indent2)

ensureFeaturesRmcpClientTrue(contents) ==
    LET lines == Split(contents, <<>>)
        i == HeaderLine(lines, "[features]")
        trimmed == TrimRight(contents, "\n")
    IN  IF i # 0 THEN FeaturesLoop(lines, i + 1, <<>>)
        ELSE (IF trimmed # <<>> THEN trimmed \o <<"\n", "\n">> ELSE trimmed)
             \o Join(<<<<"[features]">>, RmcpClientTrue, <<>>>>)

\* The first line from line i on that starts a table, Len(lines) + 1 when
\* there is none.
NextTable(lines, i) ==
    IF \E e \in i..Len(lines) : StartsWithBracket(TrimSpace(lines[e]))
    THEN CHOOSE e \in i..Len(lines) :
            /\ StartsWithBracket(TrimSpace(lines[e]))
            /\ \A j \in i..(e - 1) : ~StartsWithBracket(TrimSpace(lines[j]))
    ELSE Len(lines) + 1

upsertTomlTable(contents, header, desiredTable) ==
    LET lines == Split(contents, <<>>)
        start == HeaderLine(lines, header)
        end == NextTable(lines, start + 1)
        trimmed == TrimRight(contents, "\n")
        before == TrimRight(Join(SubSeq(lines, 1, start - 1)), "\n")
        after == TrimLeft(Join(SubSeq(lines, end, Len(lines))), "\n")
        desired == TrimLeft(desiredTable, "\n")
    IN  IF start = 0
        THEN (IF trimmed # <<>> THEN trimmed \o <<"\n", "\n">> ELSE trimmed) \o desired
        ELSE IF before = <<>> /\ after = <<>> THEN desired
        ELSE IF before = <<>> THEN desired \o <<"\n">> \o after
        ELSE IF after = <<>> THEN before \o <<"\n", "\n">> \o desired
        ELSE before \o <<"\n", "\n">> \o desired \o <<"\n">> \o after

\* The header line holds the quoted env var name or API key as characters.
renderCodexDatagenTable(apiKey, useEnvHeaders, envVarName) ==
    Join(<<<<"[mcp_servers.datagen]">>, <<"url", " = DatagenMCPURL">>,
           IF useEnvHeaders THEN <<"env_http_headers">> \o envVarName
           ELSE <<"http_headers">> \o apiKey,
           <<>>>>)

\* Returns [err, text, changed].
UpdateCodexConfig(contents, apiKey, useEnvHeaders, envVarName) ==
    LET upserted == upsertTomlTable(ensureFeaturesRmcpClientTrue(contents),
                                    "[mcp_servers.datagen]",
                                    renderCodexDatagenTable(apiKey, useEnvHeaders, envVarName))
        text == IF upserted = <<>> \/ upserted[Len(upserted)] # "\n"
                THEN Append(upserted, "\n") ELSE upserted
    IN  IF useEnvHeaders /\ TrimSpace(envVarName) = <<>>
        THEN [err |-> "env var name is required for env_http_headers", text |-> <<>>,
              changed |-> FALSE]
        ELSE IF ~useEnvHeaders /\ TrimSpace(apiKey) = <<>>
        THEN [err |-> "api key is required for http_headers", text |-> <<>>,
              changed |-> FALSE]
        ELSE [err |-> "", text |-> text, changed |-> text # contents]

(***************************************************************************)
(* Codex configuration files of up to MaxTomlLines lines, with and without *)
(* a newline at the end of the last line; no table and no key of a table   *)
(* is defined twice.                                                       *)
(***************************************************************************)
MaxTomlLines == 4

TomlLines ==
    {<<"[features]">>, <<"[mcp_servers.datagen]">>, <<"[mcp_servers.other]">>,
     <<"some_other_flag", " = false">>, <<" ", "nested_flag", " = 1">>,
     <<"rmcp_client", " = false">>, <<"rmcp_client_x", " = 1">>, <<"url", " = old">>,
     <<>>, <<"# note">>}

\* The header or key a line defines, "" for a blank line or a comment.
Defines(line) ==
    IF TrimSpace(line) = <<>> \/ StartsWithHash(TrimSpace(line)) THEN ""
    ELSE TrimSpace(line)[1]

\* The header of the table line i belongs to, "" before the first header.
TableOf(lines, i) ==
    LET hs == {h \in 1..i : StartsWithBracket(TrimSpace(lines[h]))}
    IN  IF hs = {} THEN ""
        ELSE Defines(lines[CHOOSE h \in hs : \A g \in hs : g <= h])

WellFormedToml(lines) ==
    \A i, j \in 1..Len(lines) :
        (i < j /\ Defines(lines[i]) # "" /\ Defines(lines[i]) = Defines(lines[j]))
            => TableOf(lines, i) # TableOf(lines, j)

TomlFiles ==
    LET texts == {ls \in UNION {[1..n -> TomlLines] : n \in 0..MaxTomlLines} :
                     WellFormedToml(ls)}
    IN  {Join(ls) : ls \in texts} \cup {Join(ls) \o <<"\n">> : ls \in texts \ {<<>>}}

CodexArguments ==
    {[apiKey |-> <<"n", "e", "w">>, useEnvHeaders |-> FALSE, envVarName |-> <<>>],
     [apiKey |-> <<>>, useEnvHeaders |-> TRUE, envVarName |-> <<"DATAGEN_API_KEY">>],
     [apiKey |-> <<" ">>, useEnvHeaders |-> FALSE, envVarName |-> <<"DATAGEN_API_KEY">>],
     [apiKey |-> <<"n", "e", "w">>, useEnvHeaders |-> TRUE, envVarName |-> <<>>]}

InitCodex ==
    /\ toml = InitConfig
    /\ prompts = {"chat.md"}
    /\ mainPy = <<>>
    /\ modelsPy = <<>>
    /\ envEx = <<>>
    /\ edits = 0
    /\ last = Last("init", "", <<>>, <<>>, NoFiles)
    /\ gen \in {[contents |-> c, args |-> a, calls |-> 0, err |-> "", once |-> <<>>,
                 changed |-> FALSE, twice |-> <<>>, changedAgain |-> FALSE] :
                  c \in TomlFiles, a \in CodexArguments}

\* UpdateCodexConfig on the file.
UpdateCodex ==
    /\ gen.calls = 0
    /\ LET u == UpdateCodexConfig(gen.contents, gen.args.apiKey, gen.args.useEnvHeaders,
                                  gen.args.envVarName)
       IN  gen' = [gen EXCEPT !.calls = 1, !.err = u.err, !.once = u.text,
                              !.changed = u.changed]
    /\ UNCHANGED <<toml, prompts, mainPy, modelsPy, envEx, edits, last>>

\* UpdateCodexConfig with the same arguments on the result.
UpdateCodexAgain ==
    /\ gen.calls = 1
    /\ gen.err = ""
    /\ LET u == UpdateCodexConfig(gen.once, gen.args.apiKey, gen.args.useEnvHeaders,
                                  gen.args.envVarName)
       IN  gen' = [gen EXCEPT !.calls = 2, !.twice = u.text, !.changedAgain = u.changed]
    /\ UNCHANGED <<toml, prompts, mainPy, modelsPy, envEx, edits, last>>

NextCodex == UpdateCodex \/ UpdateCodexAgain

SpecCodex == InitCodex /\ [][NextCodex]_vars

(***************************************************************************)
(* Agent prompt files (cmd/start.go, cmd/add.go).  files maps the path of  *)
(* a prompt file under the output directory to what the file holds:        *)
(* "absent", the user's own text, a generated template, or the copy of an  *)
(* agent file.                                                             *)
(***************************************************************************)
PromptTemplate(svc) ==
    CASE svc.Type = "webhook" -> "webhook template"
      [] svc.Type = "streaming" -> "streaming template"
      [] OTHER -> "api template"

\* Returns [err, files].  fail: "mkdir" or "write" when that call fails.
createAgentPromptFile(files, svc, fail) ==
    IF fail = "mkdir" THEN [err |-> "failed to create prompt directory", files |-> files]
    ELSE IF fail = "write" THEN [err |-> "failed to write prompt file", files |-> files]
    ELSE [err |-> "", files |-> [files EXCEPT ![svc.Prompt] = PromptTemplate(svc)]]

\* The loop of runStartAdvanced over cfg.Services: a failure is a warning.
RECURSIVE CreatePromptFiles(_, _)
CreatePromptFiles(files, services) ==
    IF services = <<>> THEN files
    ELSE CreatePromptFiles(createAgentPromptFile(files, Head(services), "none").files,
                           Tail(services))

MaxCommands == 2

PromptPaths == {svc.Prompt : svc \in Catalogue}

PromptFailures == {"none", "mkdir", "write"}

InitPrompt ==
    /\ toml = InitConfig
    /\ prompts = {"chat.md"}
    /\ mainPy = <<>>
    /\ modelsPy = <<>>
    /\ envEx = <<>>
    /\ edits = 0
    /\ last = Last("init", "", <<>>, <<>>, NoFiles)
    /\ gen \in {[files |-> f, commands |-> 0, op |-> "init", targets |-> {}, err |-> "",
                 pre |-> f] : f \in [PromptPaths -> {"absent", "user text"}]}

\* The prompt step of runAdd: createAgentPromptFile for the new service.
AddCreatesPrompt(newService, fail) ==
    /\ gen.commands < MaxCommands
    /\ LET c == createAgentPromptFile(gen.files, newService, fail)
       IN  gen' = [files |-> c.files, commands |-> gen.commands + 1, op |-> "add",
                   targets |-> {newService.Prompt}, err |-> c.err, pre |-> gen.files]
    /\ UNCHANGED <<toml, prompts, mainPy, modelsPy, envEx, edits, last>>

\* runStartAdvanced: a prompt file for each collected service.
StartAdvanced(services) ==
    /\ gen.commands < MaxCommands
    /\ gen' = [files |-> CreatePromptFiles(gen.files, services),
               commands |-> gen.commands + 1, op |-> "start --advanced",
               targets |-> {services[i].Prompt : i \in 1..Len(services)}, err |-> "",
               pre |-> gen.files]
    /\ UNCHANGED <<toml, prompts, mainPy, modelsPy, envEx, edits, last>>

\* runStartFromExistingAgents: the selected agent file is copied into the
\* output directory unless that is where it is; a file already there is an
\* error.
StartFromAgent(path, samePath) ==
    /\ gen.commands < MaxCommands
    /\ samePath => gen.files[path] # "absent"
    /\ gen' = [files |-> IF ~samePath /\ gen.files[path] = "absent"
                         THEN [gen.files EXCEPT ![path] = "agent file"] ELSE gen.files,
               commands |-> gen.commands + 1, op |-> "start",
               targets |-> {path},
               err |-> IF ~samePath /\ gen.files[path] # "absent"
                       THEN "agent file already exists in output dir" ELSE "",
               pre |-> gen.files]
    /\ UNCHANGED <<toml, prompts, mainPy, modelsPy, envEx, edits, last>>

NextPrompt ==
    \/ \E newService \in Catalogue, fail \in PromptFailures : AddCreatesPrompt(newService, fail)
    \/ \E services \in UNION {[1..n -> Catalogue] : n \in 1..2} : StartAdvanced(services)
    \/ \E path \in PromptPaths, samePath \in BOOLEAN : StartFromAgent(path, samePath)

SpecPrompt == InitPrompt /\ [][NextPrompt]_vars

(***************************************************************************)
(* The deploy command (cmd/deploy.go, runDeploy).  gen.pc is the position  *)
(* of the command in runDeploy, gen.trace the steps it has executed, each  *)
(* with its outcome, gen.exit the exit code once the process has ended     *)
(* (<<>> while it runs), gen.collected the variables of                    *)
(* collectRailwayVariables.  The outcome of an external command, of a      *)
(* prompt and of a file test is an input of the step.                      *)
(***************************************************************************)
Step(step, ok) == [step |-> step, ok |-> ok]

\* The step is executed; the command goes on at pc.
GoOn(step, ok, pc) ==
    gen' = [gen EXCEPT !.pc = pc, !.trace = Append(gen.trace, Step(step, ok))]

\* The step is executed and os.Exit(code) follows.
Exit(step, ok, code) ==
    gen' = [gen EXCEPT !.pc = "exited", !.trace = Append(gen.trace, Step(step, ok)),
                       !.exit = <<code>>]

DeployFlagLists == {<<>>, <<<<"K", "=", "K">>>>, <<<<"=">>>>}

DeployDotEnvMaps == {m \in DotEnvMaps : <<"K">> \notin DOMAIN m}

InitDeploy ==
    /\ toml = InitConfig
    /\ prompts = {"chat.md"}
    /\ mainPy = <<>>
    /\ modelsPy = <<>>
    /\ envEx \in {<<>>, DeployEnvExample}
    /\ edits = 0
    /\ last = Last("init", "", <<>>, <<>>, NoFiles)
    /\ gen \in {[flags |-> f, localEnv |-> l, osEnv |-> NoVariables, pc |-> "platform",
                 trace |-> <<>>, exit |-> <<>>, collected |-> NoVariables] :
                  f \in DeployFlagLists, l \in DeployDotEnvMaps}

\* The platform argument and the change to the output directory.
\* chdir: "none" for the output directory ".", else whether os.Chdir works.
CheckPlatform(platform, chdir) ==
    /\ gen.pc = "platform"
    /\ IF platform # "railway" THEN Exit("platform", FALSE, 1)
       ELSE IF chdir = "fail" THEN Exit("Chdir", FALSE, 1)
       ELSE GoOn("platform", TRUE, "LookPath")
    /\ UNCHANGED <<toml, prompts, mainPy, modelsPy, envEx, edits, last>>

\* exec.LookPath("railway")
LookPath(found) ==
    /\ gen.pc = "LookPath"
    /\ GoOn("LookPath", found, IF found THEN "whoami" ELSE "promptInstallRailway")
    /\ UNCHANGED <<toml, prompts, mainPy, modelsPy, envEx, edits, last>>

\* promptInstallRailway: installed is its result.
PromptInstallRailway(installed) ==
    /\ gen.pc = "promptInstallRailway"
    /\ IF installed THEN GoOn("promptInstallRailway", TRUE, "LookPathAgain")
       ELSE Exit("promptInstallRailway", FALSE, 1)
    /\ UNCHANGED <<toml, prompts, mainPy, modelsPy, envEx, edits, last>>

\* exec.LookPath("railway") after the installation
LookPathAgain(found) ==
    /\ gen.pc = "LookPathAgain"
    /\ IF found THEN GoOn("LookPath", TRUE, "whoami") ELSE Exit("LookPath", FALSE, 1)
    /\ UNCHANGED <<toml, prompts, mainPy, modelsPy, envEx, edits, last>>

\* railway whoami
Whoami(ok) ==
    /\ gen.pc = "whoami"
    /\ GoOn("whoami", ok, IF ok THEN "checkRequiredFiles" ELSE "promptRailwayLogin")
    /\ UNCHANGED <<toml, prompts, mainPy, modelsPy, envEx, edits, last>>

\* promptRailwayLogin: loggedIn is its result.
PromptRailwayLogin(loggedIn) ==
    /\ gen.pc = "promptRailwayLogin"
    /\ IF loggedIn THEN GoOn("promptRailwayLogin", TRUE, "whoamiAgain")
       ELSE Exit("promptRailwayLogin", FALSE, 1)
    /\ UNCHANGED <<toml, prompts, mainPy, modelsPy, envEx, edits, last>>

\* railway whoami after the login
WhoamiAgain(ok) ==
    /\ gen.pc = "whoamiAgain"
    /\ IF ok THEN GoOn("whoami", TRUE, "checkRequiredFiles") ELSE Exit("whoami", FALSE, 1)
    /\ UNCHANGED <<toml, prompts, mainPy, modelsPy, envEx, edits, last>>

RequiredFiles == <<"requirements.txt", "Procfile">>

\* checkRequiredFiles: an error at the first required file that is missing.
checkRequiredFiles(existing) ==
    IF \E i \in 1..Len(RequiredFiles) : RequiredFiles[i] \notin existing
    THEN "required file missing" ELSE ""

CheckRequiredFiles(existing) ==
    /\ gen.pc = "checkRequiredFiles"
    /\ IF checkRequiredFiles(existing) # "" THEN Exit("checkRequiredFiles", FALSE, 1)
       ELSE GoOn("checkRequiredFiles", TRUE, "ensureRailwayProject")
    /\ UNCHANGED <<toml, prompts, mainPy, modelsPy, envEx, edits, last>>

\* ensureRailwayProject: nothing to do when .railway exists, else the
\* question for the project name and railway init.
ensureRailwayProject(initialized, asked, init) ==
    IF initialized THEN ""
    ELSE IF ~asked THEN "interrupt"
    ELSE IF ~init THEN "railway init failed"
    ELSE ""

EnsureRailwayProject(initialized, asked, init) ==
    /\ gen.pc = "ensureRailwayProject"
    /\ IF ensureRailwayProject(initialized, asked, init) # ""
       THEN Exit("ensureRailwayProject", FALSE, 1)
       ELSE GoOn("ensureRailwayProject", TRUE, "collectRailwayVariables")
    /\ UNCHANGED <<toml, prompts, mainPy, modelsPy, envEx, edits, last>>

\* collectRailwayVariables, with what the user does at a prompt.
CollectForDeploy(entered) ==
    /\ gen.pc = "collectRailwayVariables"
    /\ LET c == collectRailwayVariables(envEx, gen.flags, gen.localEnv, gen.osEnv, entered)
       IN  IF c.err # "" THEN Exit("collectRailwayVariables", FALSE, 1)
           ELSE gen' = [gen EXCEPT !.pc = "up", !.collected = c.vars,
                                   !.trace = Append(gen.trace,
                                                    Step("collectRailwayVariables", TRUE))]
    /\ UNCHANGED <<toml, prompts, mainPy, modelsPy, envEx, edits, last>>

\* The initial deployToRailway (railway up --detach): on success the
\* service is linked when variables were collected, else the status follows.
InitialDeployIgnoringFailure(ok) ==
    /\ gen.pc = "up"
    /\ GoOn("up", ok, IF DOMAIN gen.collected # {} THEN "service" ELSE "status")
    /\ UNCHANGED <<toml, prompts, mainPy, modelsPy, envEx, edits, last>>

InitialDeploy(ok) ==
    /\ gen.pc = "up"
    /\ IF ~ok THEN Exit("up", FALSE, 1)
       ELSE GoOn("up", TRUE, IF DOMAIN gen.collected # {} THEN "service" ELSE "status")
    /\ UNCHANGED <<toml, prompts, mainPy, modelsPy, envEx, edits, last>>

\* linkRailwayService (railway service): a failure is only a warning.
LinkRailwayService(ok) ==
    /\ gen.pc = "service"
    /\ GoOn("service", ok, "variables")
    /\ UNCHANGED <<toml, prompts, mainPy, modelsPy, envEx, edits, last>>

\* setRailwayVariables (railway variables --skip-deploys --set ...)
SetRailwayVariables(ok) ==
    /\ gen.pc = "variables"
    /\ IF ~ok THEN Exit("variables", FALSE, 1) ELSE GoOn("variables", TRUE, "redeploy")
    /\ UNCHANGED <<toml, prompts, mainPy, modelsPy, envEx, edits, last>>

\* The second deployToRailway: a failure is only a warning.
Redeploy(ok) ==
    /\ gen.pc = "redeploy"
    /\ GoOn("up", ok, "status")
    /\ UNCHANGED <<toml, prompts, mainPy, modelsPy, envEx, edits, last>>

\* showDeploymentStatus (railway status): a failure is only a warning.
ShowDeploymentStatus(ok) ==
    /\ gen.pc = "status"
    /\ GoOn("status", ok, "domain")
    /\ UNCHANGED <<toml, prompts, mainPy, modelsPy, envEx, edits, last>>

\* showDeploymentInfo (railway domain), then runDeploy returns.
ShowDeploymentInfo(ok) ==
    /\ gen.pc = "domain"
    /\ Exit("domain", ok, 0)
    /\ UNCHANGED <<toml, prompts, mainPy, modelsPy, envEx, edits, last>>

NextDeploy ==
    \/ \E platform \in {"railway", "fly"}, chdir \in {"none", "ok", "fail"} :
          CheckPlatform(platform, chdir)
    \/ \E found \in BOOLEAN : LookPath(found)
    \/ \E installed \in BOOLEAN : PromptInstallRailway(installed)
    \/ \E found \in BOOLEAN : LookPathAgain(found)
    \/ \E ok \in BOOLEAN : Whoami(ok)
    \/ \E loggedIn \in BOOLEAN : PromptRailwayLogin(loggedIn)
    \/ \E ok \in BOOLEAN : WhoamiAgain(ok)
    \/ \E existing \in SUBSET {"requirements.txt", "Procfile"} : CheckRequiredFiles(existing)
    \/ \E initialized \in BOOLEAN, asked \in BOOLEAN, init \in BOOLEAN :
          EnsureRailwayProject(initialized, asked, init)
    \/ \E entered \in {<<>>, <<"p">>} : CollectForDeploy(entered)
    \/ \E ok \in BOOLEAN : InitialDeploy(ok)
    \/ \E ok \in BOOLEAN : LinkRailwayService(ok)
    \/ \E ok \in BOOLEAN : SetRailwayVariables(ok)
    \/ \E ok \in BOOLEAN : Redeploy(ok)
    \/ \E ok \in BOOLEAN : ShowDeploymentStatus(ok)
    \/ \E ok \in BOOLEAN : ShowDeploymentInfo(ok)

\* The command is one sequential process: it takes its next step as long as
\* it has one.
SpecDeploy == InitDeploy /\ [][NextDeploy]_vars /\ WF_vars(NextDeploy)

(***************************************************************************)
(* Vocabulary of the properties.                                           *)
(***************************************************************************)
Range(s) == {s[i] : i \in 1..Len(s)}

\* The last command was an add that reached IncrementalAddService.
AddInvoked == last.op = "add" /\ "patch" \in Range(last.trace)

\* ... and IncrementalAddService returned nil.
AddOK == AddInvoked /\ last.err = ""

\* The updates IncrementalAddService ran, in order.
PatchSteps == SubSeq(last.trace, 6, Len(last.trace))

MainMarkers ==
    {Marker(z, w) : z \in {"AGENT LOADING", "ENDPOINT HANDLERS"}, w \in {"START", "END"}}

ModelsMarkers == {Marker("SERVICE MODELS", w) : w \in {"START", "END"}}

MissingMarkerErrors == {"missing agent loading markers", "missing endpoint handlers markers"}

\* What is outside the zones and is not the generator's to rewrite: the
\* user's own pieces, with the sentinels and the fixed texts around them.
IsSkeleton(p) == p.o = "user" \/ p.k \in {"marker", "text"}

Skeleton(content) == SelectSeq(content, IsSkeleton)

\* The names in the list literal of the health endpoint.
HealthNames(content) ==
    LET h == Index(content, Text("health"))
        close == IndexFrom(content, ListClose("gen"), h + 1)
    IN  IF h = 0 \/ close = 0 THEN <<>>
        ELSE [i \in 1..(close - h - 2) |-> content[h + 1 + i].n]

\* The service names of the blocks of a zone, in order of appearance.
RECURSIVE NameOrder(_)
NameOrder(pieces) ==
    IF pieces = <<>> THEN <<>>
    ELSE IF Len(pieces) > 1 /\ pieces[1].n = pieces[2].n THEN NameOrder(Tail(pieces))
    ELSE <<pieces[1].n>> \o NameOrder(Tail(pieces))

NamesDistinct(services) ==
    \A i, j \in 1..Len(services) : i # j => services[i].Name # services[j].Name

MarkersKept(pre, post, markers) == \A m \in markers : Count(post, m) = Count(pre, m)

(***************************************************************************)
(* C1.  When a sentinel line of either zone of app/main.py has been        *)
(* stripped, IncrementalAddService returns a missing-marker error and      *)
(* writes no file: main.py, models.py and .env.example keep their content. *)
(***************************************************************************)
C1_MissingMarkerNoWrite ==
    (/\ AddInvoked
     /\ last.pre.main # <<>>
     /\ \E m \in MainMarkers : ~Contains(last.pre.main, m))
    => /\ last.err \in MissingMarkerErrors
       /\ mainPy = last.pre.main
       /\ modelsPy = last.pre.models
       /\ envEx = last.pre.env

(***************************************************************************)
(* C2.  On a generated main.py to which the user has only added lines      *)
(* outside the zones, a successful add leaves every user line unchanged    *)
(* and in place among the other text outside the zones, and leaves one     *)
(* START and one END line per zone.                                        *)
(***************************************************************************)
C2_UserLinesPreserved ==
    (/\ AddOK
     /\ \A m \in MainMarkers : Count(last.pre.main, m) = 1)
    => /\ Skeleton(mainPy) = Skeleton(last.pre.main)
       /\ \A m \in MainMarkers : Count(mainPy, m) = 1

(***************************************************************************)
(* C3.  For every service, the handler block of a full generation is the   *)
(* handler block the incremental add inserts into an empty zone.           *)
(***************************************************************************)
C3_CompilerPatcherEquivalence ==
    (gen.compiled # <<>> /\ gen.patched # <<>>) => gen.compiled = gen.patched

(***************************************************************************)
(* C4.  A successful add appends: in each zone of main.py that has its END *)
(* line, the zone afterwards is the zone before followed by the new        *)
(* fragment (nothing earlier moved or altered), and when the blocks were   *)
(* in configuration order before, they are in the order of a full          *)
(* generation of the updated configuration afterwards.                     *)
(***************************************************************************)
NewFragment(zone, svc) ==
    IF zone = "AGENT LOADING" THEN <<agentLoadingCode(svc)>> ELSE generateEndpointCode(svc)

C5_HealthListComplete ==
    AddOK => HealthNames(mainPy) = ServiceNames(toml)

(***************************************************************************)
(* C6 as stated.  add validates, then patches, then persists: the patch    *)
(* precedes the save, and a failing patch leaves datagen.toml unchanged.   *)
(***************************************************************************)
Position(s, x) == IF x \in Range(s) THEN CHOOSE i \in 1..Len(s) : s[i] = x ELSE 0

C7_ValidatedBeforeGeneration ==
    /\ (last.op = "build" /\ "generate" \in Range(last.trace))
            => ValidateConfig(toml, prompts) = ""
    /\ AddInvoked => ValidateConfig(toml, prompts) = ""

(***************************************************************************)
(* C8.  add rejects a new service that has the name of an existing one     *)
(* before it changes anything (no save, no prompt file, no injection), and *)
(* the names in the persisted configuration stay pairwise distinct.        *)
(***************************************************************************)
C8_DuplicateRejected ==
    /\ NamesDistinct(toml.Services)
    /\ (/\ last.op = "add"
        /\ last.svc # <<>>
        /\ \E i \in 1..Len(last.pre.toml) : last.pre.toml[i].Name = last.svc[1].Name)
       => /\ last.err = "duplicate"
          /\ Snapshot = last.pre
          /\ Range(last.trace) \cap {"save", "prompt", "patch"} = {}

C8_Witness ==
    /\ last.op = "add"
    /\ last.err = "duplicate"
    /\ Len(toml.Services) > 1

(***************************************************************************)
(* C9.  updateEnvExample only appends: the previous .env.example is a      *)
(* prefix of the new one, and every variable line it appends has a name    *)
(* that no variable line of the previous content defines.                  *)
(***************************************************************************)
C9_EnvAppendOnly ==
    last.op = "add" =>
        /\ IsPrefix(last.pre.env, envEx)
        /\ \A i \in (Len(last.pre.env) + 1)..Len(envEx) :
              envEx[i].k = "var" =>
                  ~\E j \in 1..Len(last.pre.env) :
                      last.pre.env[j].k = "var" /\ last.pre.env[j].nm = envEx[i].nm

\* An add that appended to a file which already held service variables.
C9_Witness ==
    /\ AddOK
    /\ Len(envEx) > Len(last.pre.env)
    /\ Len(last.pre.env) > Len(generateEnvExample(ConfigOf(<<>>)))

(***************************************************************************)
(* C10.  IncrementalAddService updates main.py, models.py, .env.example in *)
(* this order and stops at the first update that fails: the failing update *)
(* and the later ones write nothing, and a written file keeps every        *)
(* sentinel line it had.                                                   *)
(***************************************************************************)
C10_AbortAtFirstFailure ==
    AddInvoked =>
        /\ PatchSteps # <<>>
        /\ IsPrefix(PatchSteps, <<"main.py", "models.py", ".env.example">>)
        /\ (last.err # "" /\ Len(PatchSteps) = 1)
              => mainPy = last.pre.main /\ modelsPy = last.pre.models
                 /\ envEx = last.pre.env
        /\ (last.err # "" /\ Len(PatchSteps) = 2)
              => modelsPy = last.pre.models /\ envEx = last.pre.env
        /\ (last.err # "" /\ Len(PatchSteps) = 3) => envEx = last.pre.env
        /\ (Len(PatchSteps) < 3) => envEx = last.pre.env
        /\ MarkersKept(last.pre.main, mainPy, MainMarkers)
        /\ MarkersKept(last.pre.models, modelsPy, ModelsMarkers)

\* models.py failed after main.py was written; .env.example was not touched.
C10_Witness ==
    /\ AddInvoked
    /\ last.err = "missing service models markers"
    /\ mainPy # last.pre.main
    /\ PatchSteps = <<"main.py", "models.py">>
    /\ last.svc[1].Auth # <<>>

(***************************************************************************)
(* C11.  The handler block of a webhook service holds the signature helper *)
(* (verify_<name>_signature) and its call exactly when the service has     *)
(* webhook settings whose scheme is hmac_sha256; with scheme none, custom, *)
(* empty or no settings there is neither.  Both for the block of a full    *)
(* generation and for the block of an incremental add.                     *)
(***************************************************************************)
HasPiece(block, label) == \E i \in 1..Len(block) : block[i].l = label

HelperIffHmac(svc, block) ==
    LET hmac == svc.Webhook # <<>> /\ svc.Webhook[1].SignatureVerification = "hmac_sha256"
    IN  /\ HasPiece(block, "def verify_signature") <=> hmac
        /\ HasPiece(block, "verify_signature(request, body)") <=> hmac

C11_HelperOnlyForHmac ==
    /\ (gen.compiled # <<>> /\ gen.svc[1].Type = "webhook")
            => HelperIffHmac(gen.svc[1], gen.compiled)
    /\ (gen.patched # <<>> /\ gen.svc[1].Type = "webhook")
            => HelperIffHmac(gen.svc[1], gen.patched)

\* An hmac_sha256 webhook, generated both ways, with the helper in both.
C11_Witness ==
    /\ gen.svc[1].Type = "webhook"
    /\ gen.svc[1].Webhook # <<>>
    /\ gen.svc[1].Webhook[1].SignatureVerification = "hmac_sha256"
    /\ HasPiece(gen.compiled, "def verify_signature")
    /\ HasPiece(gen.patched, "def verify_signature")

(***************************************************************************)
(* C12.  In every generated signature helper, of a full generation or of   *)
(* an incremental add, the test for a configured secret (which returns     *)
(* when there is none) comes before the test that rejects a request        *)
(* without the signature header.                                           *)
(***************************************************************************)
PieceAt(block, label) ==
    IF HasPiece(block, label) THEN CHOOSE i \in 1..Len(block) : block[i].l = label ELSE 0

SecretBeforeHeader(block) ==
    HasPiece(block, "def verify_signature")
        => PieceAt(block, "if not secret: return") < PieceAt(block, "if not signature: 401")

C12_SecretCheckedFirst ==
    SecretBeforeHeader(gen.compiled) /\ SecretBeforeHeader(gen.patched)

(***************************************************************************)
(* C13.  ValidateConfig rejects every configuration that holds a webhook   *)
(* service whose webhook path is empty or does not start with "/", or an   *)
(* api or streaming service whose api path is empty or does not start with *)
(* "/", whatever the other fields are.                                     *)
(***************************************************************************)
BadPath(path) == path = <<>> \/ path[1] # "/"

HasBadPath(svc) ==
    \/ svc.Type = "webhook" /\ BadPath(svc.WebhookPath)
    \/ svc.Type \in {"api", "streaming"} /\ BadPath(svc.APIPath)

C13_BadPathRejected ==
    (gen.done /\ \E i \in 1..Len(toml.Services) : HasBadPath(toml.Services[i]))
        => gen.err.rule # ""

\* A configuration whose only defect is a path without the leading slash,
\* in its second service.
C13_Witness ==
    /\ gen.done
    /\ gen.err.rule = "webhook_path must start with /"
    /\ gen.err.index = 1
    /\ ~HasBadPath(toml.Services[1])

(***************************************************************************)
(* C14.  ValidateConfig rejects every configuration in which an input      *)
(* field of some service, or an output field of an api service, has an     *)
(* empty name or a type outside str, int, float, bool, list, dict, any;    *)
(* the output fields of a webhook or streaming service never change the    *)
(* verdict.                                                                *)
(***************************************************************************)
BadField(f) ==
    f.Name = "" \/ f.Type \notin {"str", "int", "float", "bool", "list", "dict", "any"}

HasBadField(svc) ==
    \/ \E k \in 1..Len(svc.InputSchema) : BadField(svc.InputSchema[k])
    \/ /\ svc.Type = "api"
       /\ svc.OutputSchema # <<>>
       /\ \E k \in 1..Len(svc.OutputSchema[1]) : BadField(svc.OutputSchema[1][k])

WithoutOtherOutput(cfg) ==
    [cfg EXCEPT !.Services =
        [i \in 1..Len(cfg.Services) |->
            IF cfg.Services[i].Type = "api" THEN cfg.Services[i]
            ELSE [cfg.Services[i] EXCEPT !.OutputSchema = <<>>]]]

C14_FieldTypesClosed ==
    gen.done =>
        /\ (\E i \in 1..Len(toml.Services) : HasBadField(toml.Services[i]))
              => gen.err.rule # ""
        /\ ValidateConfigError(WithoutOtherOutput(toml), prompts) = gen.err

\* A webhook service with a bad output field, accepted.
C14_Witness ==
    /\ gen.done
    /\ gen.err.rule = ""
    /\ Len(toml.Services) = 1
    /\ toml.Services[1].Type = "webhook"
    /\ toml.Services[1].OutputSchema = <<<<BadTypeField>>>>

(***************************************************************************)
(* C15.  A configuration that ValidateConfig accepts has, in every webhook *)
(* service with webhook settings: a signature scheme among hmac_sha256,    *)
(* custom, none; with hmac_sha256 a signature header and a secret env      *)
(* name; with retry enabled, max_retries > 0 and a backoff strategy among  *)
(* exponential, linear.                                                    *)
(***************************************************************************)
WebhookSettingsOK(wh) ==
    /\ wh.SignatureVerification \in {"hmac_sha256", "custom", "none"}
    /\ wh.SignatureVerification = "hmac_sha256"
          => wh.SignatureHeader # "" /\ wh.SecretEnv # <<>>
    /\ wh.RetryEnabled
          => wh.MaxRetries > 0 /\ wh.BackoffStrategy \in {"exponential", "linear"}

C15_WebhookSettingsChecked ==
    (gen.done /\ gen.err.rule = "") =>
        \A i \in 1..Len(toml.Services) :
            (toml.Services[i].Type = "webhook" /\ toml.Services[i].Webhook # <<>>)
                => WebhookSettingsOK(toml.Services[i].Webhook[1])

(***************************************************************************)
(* C16.  ValidateConfig returns one error and stops at the first: a root   *)
(* violation (empty key env name, no service) is reported before any       *)
(* service is looked at; otherwise the error names the invalid service of  *)
(* lowest index, by index and name, with a rule that this service breaks   *)
(* and that no rule of an earlier step of the documented order precedes.   *)
(***************************************************************************)
ServiceRules ==
    {"name is required", "type is required", "description is required",
     "prompt is required", "invalid type", "prompt file not found",
     "webhook_path is required", "webhook_path must start with /",
     "api_path is required", "api_path must start with /",
     "invalid signature_verification", "signature_header is required for hmac_sha256",
     "secret_env is required for hmac_sha256", "max_retries must be > 0",
     "timeout must be > 0", "rate_limit_rpm must be > 0", "invalid response_format",
     "invalid format", "buffer_size must be > 0",
     "field name is required", "invalid field type",
     "invalid auth type", "env_var is required"}

\* The step of the documented order a rule belongs to.
StepOf(rule) ==
    CASE rule = "name is required" -> 1
      [] rule = "type is required" -> 2
      [] rule = "description is required" -> 3
      [] rule = "prompt is required" -> 4
      [] rule = "invalid type" -> 5
      [] rule = "prompt file not found" -> 6
      [] rule \in {"webhook_path is required", "webhook_path must start with /",
                   "api_path is required", "api_path must start with /"} -> 7
      [] rule \in {"invalid signature_verification",
                   "signature_header is required for hmac_sha256",
                   "secret_env is required for hmac_sha256", "max_retries must be > 0",
                   "timeout must be > 0", "rate_limit_rpm must be > 0",
                   "invalid response_format", "invalid format",
                   "buffer_size must be > 0"} -> 8
      [] rule \in {"field name is required", "invalid field type"} -> 9
      [] OTHER -> 10

AllFields(svc) ==
    {svc.InputSchema[k] : k \in 1..Len(svc.InputSchema)}
    \cup (IF svc.Type = "api" /\ svc.OutputSchema # <<>>
          THEN {svc.OutputSchema[1][k] : k \in 1..Len(svc.OutputSchema[1])}
          ELSE {})

\* Whether the service breaks the rule, each rule taken on its own.
Breaks(svc, files, rule) ==
    LET wh == svc.Type = "webhook" /\ svc.Webhook # <<>>
        api == svc.Type = "api" /\ svc.API # <<>>
        st == svc.Type = "streaming" /\ svc.Streaming # <<>>
    IN
    CASE rule = "name is required" -> svc.Name = ""
      [] rule = "type is required" -> svc.Type = ""
      [] rule = "description is required" -> svc.Description = ""
      [] rule = "prompt is required" -> svc.Prompt = ""
      [] rule = "invalid type" -> svc.Type \notin {"webhook", "api", "streaming"}
      [] rule = "prompt file not found" -> svc.Prompt \notin files
      [] rule = "webhook_path is required" -> svc.Type = "webhook" /\ svc.WebhookPath = <<>>
      [] rule = "webhook_path must start with /" ->
            svc.Type = "webhook" /\ svc.WebhookPath # <<>> /\ svc.WebhookPath[1] # "/"
      [] rule = "api_path is required" ->
            svc.Type \in {"api", "streaming"} /\ svc.APIPath = <<>>
      [] rule = "api_path must start with /" ->
            svc.Type \in {"api", "streaming"} /\ svc.APIPath # <<>> /\ svc.APIPath[1] # "/"
      [] rule = "invalid signature_verification" ->
            wh /\ svc.Webhook[1].SignatureVerification
                    \notin {"", "hmac_sha256", "custom", "none"}
      [] rule = "signature_header is required for hmac_sha256" ->
            wh /\ svc.Webhook[1].SignatureVerification = "hmac_sha256"
               /\ svc.Webhook[1].SignatureHeader = ""
      [] rule = "secret_env is required for hmac_sha256" ->
            wh /\ svc.Webhook[1].SignatureVerification = "hmac_sha256"
               /\ svc.Webhook[1].SecretEnv = <<>>
      [] rule = "max_retries must be > 0" ->
            wh /\ svc.Webhook[1].RetryEnabled /\ svc.Webhook[1].MaxRetries = 0
      [] rule = "timeout must be > 0" -> api /\ svc.API[1].Timeout = 0
      [] rule = "rate_limit_rpm must be > 0" ->
            api /\ svc.API[1].RateLimitEnabled /\ svc.API[1].RateLimitRPM = 0
      [] rule = "invalid response_format" ->
            api /\ svc.API[1].ResponseFormat \notin {"json", "text", "custom"}
      [] rule = "invalid format" ->
            st /\ svc.Streaming[1].Format \notin {"default", "json", "custom"}
      [] rule = "buffer_size must be > 0" -> st /\ svc.Streaming[1].BufferSize = 0
      [] rule = "field name is required" -> \E f \in AllFields(svc) : f.Name = ""
      [] rule = "invalid field type" ->
            \E f \in AllFields(svc) :
                f.Type \notin {"str", "int", "float", "bool", "list", "dict", "any"}
      [] rule = "invalid auth type" ->
            svc.Auth # <<>>
            /\ svc.Auth[1].Type \notin {"api_key", "bearer_token", "oauth", "none"}
      [] rule = "env_var is required" ->
            svc.Auth # <<>> /\ svc.Auth[1].Type # "none" /\ svc.Auth[1].EnvVar = <<>>
      [] OTHER -> FALSE

InvalidService(svc, files) == \E r \in ServiceRules : Breaks(svc, files, r)

C16_FirstErrorOnly ==
    gen.done =>
        LET rootBroken == toml.DatagenAPIKeyEnv = <<>> \/ toml.ClaudeAPIKeyEnv = <<>>
                          \/ toml.Services = <<>>
            bad == {i \in 1..Len(toml.Services) : InvalidService(toml.Services[i], prompts)}
        IN  IF rootBroken
            THEN /\ ~gen.err.inService
                 /\ gen.err.rule =
                       (IF toml.DatagenAPIKeyEnv = <<>> THEN "datagen_api_key_env is required"
                        ELSE IF toml.ClaudeAPIKeyEnv = <<>>
                        THEN "claude_api_key_env is required"
                        ELSE "at least one service must be defined")
            ELSE IF bad = {} THEN gen.err = NoError
            ELSE LET first == CHOOSE i \in bad : \A j \in bad : i <= j
                     svc == toml.Services[first]
                 IN  /\ gen.err.inService
                     /\ gen.err.index = first - 1
                     /\ gen.err.name = svc.Name
                     /\ gen.err.rule \in ServiceRules
                     /\ Breaks(svc, prompts, gen.err.rule)
                     /\ \A r \in ServiceRules :
                            StepOf(r) < StepOf(gen.err.rule) => ~Breaks(svc, prompts, r)

\* The second service is the first invalid one, and it breaks rules of two
\* steps: the one of the earlier step is reported.
C16_Witness ==
    /\ gen.done
    /\ gen.err.inService
    /\ gen.err.index = 1
    /\ gen.err.name = "h"
    /\ gen.err.rule = "timeout must be > 0"
    /\ Breaks(toml.Services[2], prompts, "invalid field type")

(***************************************************************************)
(* C17.  GenerateProject writes main.py, agent.py, config.py, models.py,   *)
(* __init__.py, requirements.txt, Dockerfile, .env.example, Procfile,      *)
(* railway.json, README.md in this order; at the first write that fails it *)
(* returns that error and writes no later file, and the files written      *)
(* before stay as written.                                                 *)
(***************************************************************************)
DocumentedFileOrder ==
    <<"main.py", "agent.py", "config.py", "models.py", "__init__.py", "requirements.txt",
      "Dockerfile", ".env.example", "Procfile", "railway.json", "README.md">>

C17_GenerateStopsAtFirstFailure ==
    gen.done =>
        LET k == Len(gen.written)
            wrote(f) == f \in Range(gen.written)
        IN  /\ IsPrefix(gen.steps, DocumentedFileOrder)
            /\ IsPrefix(gen.written, gen.steps)
            /\ IF gen.err = ""
               THEN gen.written = DocumentedFileOrder /\ gen.steps = gen.written
               ELSE \/ gen.fail = "mkdir" /\ gen.steps = <<>>
                    \/ /\ Len(gen.steps) = k + 1
                       /\ gen.steps[k + 1] = gen.fail
            /\ gen.err = "" <=> gen.fail = "none"
            /\ mainPy = IF wrote("main.py") THEN MainPyTemplate(toml) ELSE last.pre.main
            /\ modelsPy = IF wrote("models.py") THEN ModelsPyTemplate(toml)
                          ELSE last.pre.models
            /\ envEx = IF wrote(".env.example") THEN generateEnvExample(toml)
                       ELSE last.pre.env

\* models.py failed over an older project: main.py is the new one, models.py
\* and .env.example are still the older ones.
C17_Witness ==
    /\ gen.done
    /\ gen.fail = "models.py"
    /\ gen.err = "failed to generate models.py"
    /\ mainPy = MainPyTemplate(toml)
    /\ mainPy # last.pre.main
    /\ last.pre.models # <<>>
    /\ modelsPy = last.pre.models
    /\ modelsPy # ModelsPyTemplate(toml)
    /\ envEx = last.pre.env

(***************************************************************************)
(* C18.  NormalizeServiceName returns, for every input, a non-empty name   *)
(* of characters a-z, 0-9 and "_" that neither starts nor ends with "_",   *)
(* has no two "_" in a row and does not start with a digit; it is          *)
(* "service" when the input has no letter or digit, and it carries the     *)
(* prefix "svc_" when the name would start with a digit.  Applied to its   *)
(* own result it returns that result.                                      *)
(***************************************************************************)
IsIdentifier(name) ==
    /\ name # <<>>
    /\ \A i \in 1..Len(name) : name[i] \in LowerLetters \cup Digits \cup {"_"}
    /\ name[1] # "_"
    /\ name[Len(name)] # "_"
    /\ \A i \in 1..(Len(name) - 1) : ~(name[i] = "_" /\ name[i + 1] = "_")
    /\ name[1] \notin Digits

\* The first letter or digit of the input, <<>> when there is none.
FirstUsable(raw) ==
    LET usable == {i \in 1..Len(raw) : raw[i] \in {"a", "B", "1"}}
    IN  IF usable = {} THEN <<>>
        ELSE <<raw[CHOOSE i \in usable : \A j \in usable : i <= j]>>

C18_NormalizedName ==
    /\ gen.calls >= 1 =>
          /\ IsIdentifier(gen.out)
          /\ FirstUsable(gen.raw) = <<>> => gen.out = <<"s", "e", "r", "v", "i", "c", "e">>
          /\ FirstUsable(gen.raw) = <<"1">> => SubSeq(gen.out, 1, 5) = <<"s", "v", "c", "_", "1">>
          /\ FirstUsable(gen.raw) = <<"a">> => gen.out[1] = "a"
          /\ FirstUsable(gen.raw) = <<"B">> => gen.out[1] = "b"
    /\ gen.calls = 2 => gen.again = gen.out

\* " 1-B": trimmed, prefixed, lowered, and stable under a second call.
C18_Witness ==
    /\ gen.calls = 2
    /\ gen.raw = <<" ", "1", "-", "B">>
    /\ gen.out = <<"s", "v", "c", "_", "1", "_", "b">>
    /\ gen.again = gen.out

(***************************************************************************)
(* C19.  For every shell and every value that is not blank and holds no    *)
(* NUL, the value read back from the rendered block is found and is the    *)
(* trimmed value, quotes, "$" and backslashes included.                    *)
(***************************************************************************)
Admissible(value) ==
    /\ \E i \in 1..Len(value) : value[i] \notin {" ", "\n"}
    /\ \A i \in 1..Len(value) : value[i] # "NUL"

C19_RenderExtractRoundTrip ==
    /\ (gen.stage # "new" /\ Admissible(gen.value)) => gen.err = ""
    /\ (gen.stage = "extracted" /\ Admissible(gen.value))
            => gen.found /\ gen.got = TrimSpace(gen.value)

(***************************************************************************)
(* C20.  UpsertProfileBlock: on a profile without a login block the result *)
(* is the profile followed by the block; on a profile with one complete    *)
(* block the result has the new block in its place, the old value gone and *)
(* the text before and after it as it was; in both cases the result ends   *)
(* with a newline and holds one block, and a second upsert of the same     *)
(* block changes nothing.                                                  *)
(***************************************************************************)
Occurrences(str, tok) == Cardinality({i \in 1..Len(str) : str[i] = tok})

WholeOldBlock == gen.old # <<>> /\ datagenBlockEnd \in Range(gen.old)

\* The text after the older block, which ends with the line of its end marker.
TextAfter ==
    IF gen.old[Len(gen.old)] # "\n" /\ gen.after # <<>> /\ gen.after[1] = "\n"
    THEN Tail(gen.after) ELSE gen.after

C20_UpsertProfileBlock ==
    LET existing == gen.before \o gen.old \o gen.after
        gap == SubSeq(gen.once, Len(existing) + 1, Len(gen.once) - Len(gen.block))
    IN  /\ (gen.calls >= 1 /\ gen.old = <<>>) =>
              /\ IsPrefix(existing, gen.once)
              /\ IsSuffix(gen.block, gen.once)
              /\ Len(gen.once) >= Len(existing) + Len(gen.block)
              /\ \A i \in 1..Len(gap) : gap[i] = "\n"
        /\ (gen.calls >= 1 /\ WholeOldBlock) =>
              /\ IsPrefix(gen.before \o gen.block, gen.once)
              /\ "1" \notin Range(gen.once)
              /\ \/ gen.once = gen.before \o gen.block \o TextAfter
                 \/ /\ TextAfter # <<>>
                    /\ TextAfter[Len(TextAfter)] # "\n"
                    /\ gen.once = gen.before \o gen.block \o TextAfter \o <<"\n">>
        /\ (gen.calls >= 1 /\ (gen.old = <<>> \/ WholeOldBlock)) =>
              /\ gen.once[Len(gen.once)] = "\n"
              /\ Occurrences(gen.once, datagenBlockStart) = 1
              /\ Occurrences(gen.once, datagenBlockEnd) = 1
        /\ (gen.calls = 2 /\ (gen.old = <<>> \/ WholeOldBlock)) => gen.twice = gen.once

\* The older block sits between two lines and is replaced, twice.
C20_Witness ==
    /\ gen.calls = 2
    /\ gen.old = OldBlock
    /\ gen.before = <<"x", "\n">>
    /\ gen.after = <<"x", "\n">>
    /\ gen.once = gen.before \o gen.block \o gen.after
    /\ gen.twice = gen.once

(***************************************************************************)
(* C22.  requiredKeysFromEnvExample returns, in file order, the names of   *)
(* the variables defined between the "# Required" comment and the first    *)
(* blank line or "# Optional" comment after it; for a file written by      *)
(* generateEnvExample and extended by updateEnvExample these are the       *)
(* Claude key name and the DataGen key name, and nothing else.             *)
(***************************************************************************)
IsComment(ln, text) == ln.k = "comment" /\ ln.val = text

RequiredStart(content) ==
    IF \E i \in 1..Len(content) : IsComment(content[i], "Required")
    THEN CHOOSE i \in 1..Len(content) :
            /\ IsComment(content[i], "Required")
            /\ \A j \in 1..(i - 1) : ~IsComment(content[j], "Required")
    ELSE 0

EndsSection(ln) == ln.k = "blank" \/ IsComment(ln, "Optional")

RequiredEnd(content) ==
    LET s == RequiredStart(content) IN
    IF \E i \in (s + 1)..Len(content) : EndsSection(content[i])
    THEN CHOOSE i \in (s + 1)..Len(content) :
            /\ EndsSection(content[i])
            /\ \A j \in (s + 1)..(i - 1) : ~EndsSection(content[j])
    ELSE Len(content) + 1

DefinesVariable(ln) == ln.k = "var" /\ ln.nm # <<>>

RequiredSectionNames(content) ==
    IF RequiredStart(content) = 0 THEN <<>>
    ELSE LET defs == SelectSeq(SubSeq(content, RequiredStart(content) + 1,
                                      RequiredEnd(content) - 1), DefinesVariable)
         IN  [i \in 1..Len(defs) |-> defs[i].nm]

C22_RequiredKeys ==
    gen.read =>
        /\ gen.keys = RequiredSectionNames(envEx)
        /\ gen.generated => gen.keys = <<toml.ClaudeAPIKeyEnv, toml.DatagenAPIKeyEnv>>

\* A built file, extended by two adds that each appended variables, is read.
C22_Witness ==
    /\ gen.read
    /\ gen.generated
    /\ gen.appends = 2
    /\ Len(envEx) > Len(generateEnvExample(toml)) + 4
    /\ gen.keys = <<toml.ClaudeAPIKeyEnv, toml.DatagenAPIKeyEnv>>

(***************************************************************************)
(* C21.  Deploy variables: a --var KEY=VALUE flag gives the key its value  *)
(* with source "flag", whatever else is given; a bare --var KEY takes the  *)
(* value of .env, else of the process environment, and stays unset when    *)
(* both are blank; a flag with an empty KEY is an error; a required key    *)
(* that no flag supplied is filled from .env, then the process             *)
(* environment, then the prompt.                                           *)
(***************************************************************************)
IsAssignment(raw) == TokenIndex(raw, "=", 1) # 0

KeyOf(raw) ==
    IF IsAssignment(raw) THEN TrimSpace(SubSeq(raw, 1, TokenIndex(raw, "=", 1) - 1))
    ELSE TrimSpace(raw)

ValueOf(raw) == SubSeq(TrimSpace(raw), TokenIndex(TrimSpace(raw), "=", 1) + 1,
                       Len(TrimSpace(raw)))

AssignmentsOf(k) == {i \in 1..Len(gen.flags) : IsAssignment(gen.flags[i]) /\ KeyOf(gen.flags[i]) = k}

BareFlagsOf(k) == {i \in 1..Len(gen.flags) : ~IsAssignment(gen.flags[i]) /\ KeyOf(gen.flags[i]) = k}

NonBlank(m, k) == k \in DOMAIN m /\ TrimSpace(m[k]) # <<>>

\* The value a key takes from .env, else from the process environment.
FromEnvironment(k) ==
    IF NonBlank(gen.localEnv, k) THEN variableValue(TrimSpace(gen.localEnv[k]), ".env")
    ELSE variableValue(gen.osEnv[k], "env")

RequiredOfDeploy ==
    IF envEx = <<>> THEN {<<"ANTHROPIC_API_KEY">>, <<"DATAGEN_API_KEY">>}
    ELSE {<<"K">>, <<"R">>}

FlagKeys == {KeyOf(gen.flags[i]) : i \in 1..Len(gen.flags)} \ {<<>>}

EmptyKeyFlag == \E i \in 1..Len(gen.flags) : IsAssignment(gen.flags[i]) /\ KeyOf(gen.flags[i]) = <<>>

FlagWins ==
    \A k \in FlagKeys :
        AssignmentsOf(k) # {} =>
            /\ k \in DOMAIN gen.out
            /\ gen.out[k].Source = "flag"
            /\ \E i \in AssignmentsOf(k) : gen.out[k].Value = ValueOf(gen.flags[i])

BareFromEnvironment ==
    \A k \in FlagKeys :
        (AssignmentsOf(k) = {} /\ BareFlagsOf(k) # {}) =>
            IF NonBlank(gen.localEnv, k) \/ NonBlank(gen.osEnv, k)
            THEN k \in DOMAIN gen.out /\ gen.out[k] = FromEnvironment(k)
            ELSE k \in DOMAIN gen.out => (gen.stage = "collected" /\ k \in RequiredOfDeploy)

RequiredFilled ==
    gen.stage = "collected" =>
        \A r \in RequiredOfDeploy :
            /\ r \in DOMAIN gen.out
            /\ r \notin FlagKeys =>
                  IF NonBlank(gen.localEnv, r) \/ NonBlank(gen.osEnv, r)
                  THEN gen.out[r] = FromEnvironment(r)
                  ELSE gen.out[r] = variableValue(gen.entered, "prompt")

C21_VariablePrecedence ==
    gen.stage # "new" =>
        /\ EmptyKeyFlag => gen.err = "invalid --var (missing KEY)"
        /\ ~EmptyKeyFlag => gen.err \in {"", "interrupt"}
        /\ gen.err = "" => FlagWins /\ BareFromEnvironment /\ RequiredFilled

\* The precedence apart from FlagWins.
PrecedenceOfTheRest ==
    gen.stage # "new" =>
        /\ EmptyKeyFlag => gen.err = "invalid --var (missing KEY)"
        /\ ~EmptyKeyFlag => gen.err \in {"", "interrupt"}
        /\ gen.err = "" => BareFromEnvironment /\ RequiredFilled

(***************************************************************************)
(* C23.  UpdateCodexConfig keeps every key of an existing [features] table *)
(* and every other table, sets rmcp_client = true, and leaves one          *)
(* [mcp_servers.datagen] table that holds the newly rendered lines and no  *)
(* line of a previous one; a second call with the same arguments reports   *)
(* no change and returns the same text.                                    *)
(***************************************************************************)
\* The key lines of a table of a file, trimmed, in file order.
IndexOfLine(lines, i) == [at |-> i, line |-> TrimSpace(lines[i])]

KeysOfTable(text, header) ==
    LET lines == Split(text, <<>>)
        numbered == [i \in 1..Len(lines) |-> IndexOfLine(lines, i)]
        keys == SelectSeq(numbered,
                          LAMBDA n : /\ Defines(n.line) # ""
                                     /\ ~StartsWithBracket(n.line)
                                     /\ TableOf(lines, n.at) = header)
    IN  [i \in 1..Len(keys) |-> keys[i].line]

HeadersOf(text) ==
    LET lines == Split(text, <<>>)
    IN  {Defines(lines[i]) : i \in {j \in 1..Len(lines) : StartsWithBracket(TrimSpace(lines[j]))}}

HeaderCount(text, header) ==
    LET lines == Split(text, <<>>)
    IN  Cardinality({i \in 1..Len(lines) : TrimSpace(lines[i]) = <<header>>})

OtherFeatures(keys) == SelectSeq(keys, LAMBDA l : l[1] # "rmcp_client")

RenderedKeys ==
    <<<<"url", " = DatagenMCPURL">>,
      IF gen.args.useEnvHeaders THEN <<"env_http_headers">> \o gen.args.envVarName
      ELSE <<"http_headers">> \o gen.args.apiKey>>

FeaturesKept ==
    OtherFeatures(KeysOfTable(gen.once, "[features]"))
        = OtherFeatures(KeysOfTable(gen.contents, "[features]"))

OtherTablesKept ==
    /\ HeadersOf(gen.contents) \subseteq HeadersOf(gen.once)
    /\ \A h \in {"", "[mcp_servers.other]"} :
          KeysOfTable(gen.once, h) = KeysOfTable(gen.contents, h)

RmcpClientSet ==
    SelectSeq(KeysOfTable(gen.once, "[features]"), LAMBDA l : l[1] = "rmcp_client")
        = <<RmcpClientTrue>>

OneDatagenTable ==
    /\ HeaderCount(gen.once, "[mcp_servers.datagen]") = 1
    /\ KeysOfTable(gen.once, "[mcp_servers.datagen]") = RenderedKeys

SecondCallChangesNothing ==
    gen.calls = 2 => gen.twice = gen.once /\ ~gen.changedAgain

C23_UpdateCodexConfig ==
    (gen.calls >= 1 /\ gen.err = "") =>
        /\ FeaturesKept
        /\ OtherTablesKept
        /\ RmcpClientSet
        /\ OneDatagenTable
        /\ SecondCallChangesNothing

\* The same for the files in which no key begins with rmcp_client but
\* rmcp_client itself.
CodexWithoutPrefixedKey ==
    ("rmcp_client_x" \notin Range(gen.contents)) => C23_UpdateCodexConfig

(***************************************************************************)
(* C24.  When IncrementalAddService returns success, the registration line *)
(* of the new service is inside the AGENT LOADING zone of app/main.py, its *)
(* handler block inside the ENDPOINT HANDLERS zone, and its input model    *)
(* inside the SERVICE MODELS zone of app/models.py.                        *)
(***************************************************************************)
\* block occurs in content, as consecutive pieces.
HasBlock(content, block) ==
    \E i \in 1..(Len(content) - Len(block) + 1) :
        \A j \in 1..Len(block) : SameText(content[i + j - 1], block[j])

C24_SuccessMeansInserted ==
    AddOK =>
        /\ HasBlock(Zone(mainPy, "AGENT LOADING"), <<agentLoadingCode(last.svc[1])>>)
        /\ HasBlock(Zone(mainPy, "ENDPOINT HANDLERS"), generateEndpointCode(last.svc[1]))
        /\ HasBlock(Zone(modelsPy, "SERVICE MODELS"),
                    <<Piece("model", last.svc[1].Name, "Input", "gen")>>)

(***************************************************************************)
(* C25.  After a build and any adds, failed or not, the service names of   *)
(* datagen.toml are, in order, the services with a handler block in        *)
(* app/main.py and the names of the health-check list.                     *)
(***************************************************************************)
IsHandlerPiece(p) == p.k = "ep"

HandlerNames(content) == NameOrder(SelectSeq(content, IsHandlerPiece))

C25_ConfigMatchesProject ==
    (last.op \in {"build", "add"} /\ mainPy # <<>>) =>
        /\ ServiceNames(toml) = HandlerNames(mainPy)
        /\ ServiceNames(toml) = HealthNames(mainPy)

(***************************************************************************)
(* C26.  Every configuration the add command has saved passes              *)
(* ValidateConfig when it is loaded again: in particular the prompt file   *)
(* of the new service exists where the validator looks for it.             *)
(***************************************************************************)
\* The last command was an add that saved datagen.toml.
AddSaved == last.op = "add" /\ "prompt" \in Range(last.trace)

C26_SavedConfigLoads == AddSaved => LoadConfig(toml, prompts).err = ""

(***************************************************************************)
(* C27.  No command overwrites a prompt file that exists: a file present   *)
(* at the prompt path of a new service keeps its content through add,      *)
(* start --advanced and start.                                             *)
(***************************************************************************)
C27_PromptFileKept ==
    \A p \in gen.targets : gen.pre[p] # "absent" => gen.files[p] = gen.pre[p]

\* The same for the defaults-first start alone.
StartKeepsAgentFile == gen.op = "start" => C27_PromptFileKept

(***************************************************************************)
(* C28.  Through any number of UpsertProfileBlock calls the text of the    *)
(* profile that was outside a complete START..END block is kept, in its    *)
(* order: also the user lines that follow a START marker without an END    *)
(* marker.  The user text of the model is made of the character x, which   *)
(* no block holds.                                                         *)
(***************************************************************************)
IsUserCharacter(c) == c = "x"

UserText(text) == SelectSeq(text, IsUserCharacter)

C28_UserLinesSurvive ==
    /\ gen.calls >= 1 => UserText(gen.once) = UserText(gen.before \o gen.after)
    /\ gen.calls = 2 => UserText(gen.twice) = UserText(gen.before \o gen.after)

\* The same when the profile holds no START marker without an END marker.
UserLinesSurviveWholeBlocks ==
    (gen.old = <<>> \/ WholeOldBlock) => C28_UserLinesSurvive

(***************************************************************************)
(* C29.  After a successful add of a service that declares an auth env     *)
(* name or a webhook secret env name, each declared name is defined by one *)
(* line of .env.example, whatever other names the file held.  Names are    *)
(* compared in upper case, as updateEnvExample writes them.                *)
(***************************************************************************)
DeclaredEnvNames(svc) ==
    (IF svc.Auth # <<>> /\ svc.Auth[1].EnvVar # <<>> THEN {svc.Auth[1].EnvVar} ELSE {})
    \cup (IF svc.Webhook # <<>> /\ svc.Webhook[1].SecretEnv # <<>>
          THEN {svc.Webhook[1].SecretEnv} ELSE {})

Definitions(content, name) ==
    {i \in 1..Len(content) : content[i].k = "var" /\ ToUpper(content[i].nm) = ToUpper(name)}

C29_DeclaredNamesDefinedOnce ==
    AddOK => \A name \in DeclaredEnvNames(last.svc[1]) :
                Cardinality(Definitions(envEx, name)) = 1

(***************************************************************************)
(* C30.  In every run of the deploy command: railway up is executed only   *)
(* after the railway CLI was found, railway whoami succeeded and the       *)
(* required files were found; the variables are set only after a railway   *)
(* up that succeeded; a step that fails before the initial deployment has  *)
(* completed is the last step of the run, which exits with code 1; and     *)
(* once the variables were set, a second railway up follows.  A first      *)
(* search for the CLI or a first whoami that fails is not a failure of the *)
(* run when the installation or login offered next repairs it: only that   *)
(* offer may follow it.                                                    *)
(***************************************************************************)
StepsOf(step) == {i \in 1..Len(gen.trace) : gen.trace[i].step = step}

Succeeded(step, before) ==
    \E j \in StepsOf(step) : j < before /\ gen.trace[j].ok

\* The last execution of the step before position `before` succeeded.
Established(step, before) ==
    \E j \in StepsOf(step) :
        /\ j < before
        /\ gen.trace[j].ok
        /\ \A k \in StepsOf(step) : k < before => k <= j

UpOnlyWhenReady ==
    \A i \in StepsOf("up") :
        /\ Established("LookPath", i)
        /\ Established("whoami", i)
        /\ Established("checkRequiredFiles", i)

VariablesAfterInitialUp ==
    \A i \in StepsOf("variables") : Succeeded("up", i)

OfferAfter(step) ==
    IF step = "LookPath" THEN "promptInstallRailway" ELSE "promptRailwayLogin"

\* The first search for the CLI, or the first whoami.
FirstProbe(i) ==
    /\ gen.trace[i].step \in {"LookPath", "whoami"}
    /\ \A j \in StepsOf(gen.trace[i].step) : j >= i

FailureEndsTheRun ==
    \A i \in 1..Len(gen.trace) :
        ~gen.trace[i].ok /\ ~Succeeded("up", i) =>
            IF FirstProbe(i)
            THEN /\ i < Len(gen.trace) => gen.trace[i + 1].step = OfferAfter(gen.trace[i].step)
                 /\ i = Len(gen.trace) => gen.exit = <<>>
            ELSE i = Len(gen.trace) /\ gen.exit = <<1>>

VariablesSet == \E i \in StepsOf("variables") : gen.trace[i].ok

SecondUpAttempted ==
    \E i \in StepsOf("variables"), j \in StepsOf("up") : gen.trace[i].ok /\ i < j

\* Nothing is executed after the exit.
NoStepAfterExit == [][gen.exit # <<>> => gen'.trace = gen.trace]_vars

DeployOrder == UpOnlyWhenReady /\ VariablesAfterInitialUp /\ FailureEndsTheRun

====
